---- MODULE Spec2Model ----
(***************************************************************************)
(* Model of the session store (src/src/claude/session.py, SessionManager)  *)
(* and of the message handlers that drive it (src/src/bot/handlers.py).    *)
(*                                                                         *)
(* Time is counted in whole ticks.  SQLite's CURRENT_TIMESTAMP is the UTC  *)
(* clock `now`; Python's datetime.now() is the local clock `now + tz`.     *)
(* Rows of a table are a sequence; the rowid of a row is its index.        *)
(***************************************************************************)
EXTENDS Integers, Sequences, FiniteSets, TLC

\* ------------------------------------------------------------------ bounds
NumUsers    == 2    \* user ids 1..NumUsers
MaxSteps    == 5    \* store operations in one run of Spec
MaxMessages == 3    \* rows of table messages in SpecMsg
MaxTime     == 2    \* the clock of SpecMsg stops here
MaxLimit    == 2    \* get_messages limits 0..MaxLimit
MaxTimeout  == 1    \* timeout_hours 0..MaxTimeout
MaxTz       == 1    \* local clock - UTC clock, -MaxTz..MaxTz
NumCalls    == 2    \* concurrent get_or_create_session calls in SpecConc
MaxUpdates  == 2    \* updates delivered to the handlers in SpecH
MaxThreshold == 3   \* get_pattern_suggestions thresholds 0..MaxThreshold
MaxOps      == 3    \* store calls in one run of SpecF
MaxWords    == 3    \* tokens of a word text handed to the extractor
MaxBlocks   == 2    \* fenced blocks of a text handed to the extractor
NumTrackCalls == 3  \* concurrent track_pattern calls in SpecTrack

Users     == 1..NumUsers
Limits    == 0..MaxLimit
Timeouts  == 0..MaxTimeout
TzOffsets == (0 - MaxTz)..MaxTz

\* A context is a dict, written as a set of <<key, value>> pairs.
CtxA == {<<"a", 1>>}
CtxB == {<<"b", 2>>}
ContextInputs == {CtxA, CtxB}

\* (user_id, pattern_key, pattern_value) triples offered to the pattern
\* operations: one triple and one that differs from it in each coordinate.
PatternInputs == {<<1, "k1", "v1">>, <<1, "k1", "v2">>, <<1, "k2", "v1">>, <<2, "k1", "v1">>}
PatternKeys   == {t[2] : t \in PatternInputs}
Thresholds    == 0..MaxThreshold

\* (role, content) pairs offered to add_message.
MessageInputs == {<<"user", "a">>, <<"assistant", "b">>}

VARIABLES
    sessions,         \* table sessions: Seq of [user_id, updated_at, is_active, context]
    messages,         \* table messages: Seq of [session_id, role, content, timestamp]
    current_session,  \* SessionManager.current_session
    timeout_hours,    \* SessionManager.timeout_hours
    now,              \* the UTC clock
    tz,               \* offset of the local clock from UTC
    ret,              \* value returned by the last operation
    lastOp,           \* the last operation and what it saw when it was called
    steps,            \* operations performed so far
    calls,            \* SpecConc: the get_or_create_session calls in progress
    writer,           \* SpecConc: the call whose connection holds the write lock
    h,                \* SpecH: the handler in progress
    reply,            \* SpecH: the last reply sent to the chat
    updates,          \* SpecH: updates delivered so far
    trace,            \* SpecH: what the handler in progress has done, in order
    user_patterns,    \* table user_patterns: Seq of [user_id, pattern_key,
                      \*   pattern_value, occurrence_count, is_confirmed_default]
    op,               \* SpecF: the store call in progress, statement by statement
    ext               \* SpecX: the calls made to the action extractor

storeVars   == <<sessions, messages, current_session>>
envVars     == <<timeout_hours, now, tz>>
concVars    == <<calls, writer>>
handlerVars == <<h, reply, updates, trace>>
vars        == <<sessions, messages, current_session, timeout_hours, now, tz,
                 ret, lastOp, steps, calls, writer, h, reply, updates, trace,
                 user_patterns, op, ext>>

\* ----------------------------------------------------------------- helpers
Min(a, b) == IF a < b THEN a ELSE b

\* current_session = None
NoSession == [id |-> 0, user_id |-> 0, context |-> {}]

\* No store call is in progress.
NoCall == [name |-> "none", pc |-> "idle", user |-> 0, sid |-> 0, role |-> "",
           content |-> "", ctx |-> {}, limit |-> 0, row |-> 0, S |-> <<>>, M |-> <<>>,
           S0 |-> <<>>, M0 |-> <<>>, cache |-> NoSession, result |-> "none"]

\* No handler is running.
Idle == [kind |-> "idle", pc |-> "idle", user |-> 0, sid |-> 0, msgs |-> <<>>,
         response |-> <<>>, actions |-> <<>>, exc |-> ""]

\* No call has been made to the extractor.  subject is the text under study,
\* explicit counts the actions the list held when the implicit scan began,
\* first keeps the first call made on the subject, between tells that
\* another call was made since.
NoExtract == [pc |-> "idle", subject |-> <<>>, text |-> <<>>, inst |-> "",
              result |-> <<>>, explicit |-> 0, error |-> "", shown |-> <<>>,
              first |-> [done |-> FALSE, inst |-> "", result |-> <<>>, error |-> ""],
              between |-> FALSE]

\* json.dumps / json.loads of a context: the column holds text, not a dict.
JsonDumps(c) == <<"json", c>>
JsonLoads(t) == t[2]

\* row[1] of the lookup: `json.loads(row[1]) if row[1] else {}`
LoadContext(t) == IF t = <<>> THEN {} ELSE JsonLoads(t)

\* lastOp records the call (op, user, sid, limit, ctx) and what the store and
\* the cache held when it was made (nsess rows, the user's active sessions,
\* the cache).
NoOp == [op |-> "none", user |-> 0, sid |-> 0, limit |-> 0, ctx |-> {},
         nsess |-> 0, active |-> {}, prev |-> <<>>, key |-> "", value |-> ""]

\* datetime.now() - timedelta(hours=self.timeout_hours)
TimeoutThreshold == (now + tz) - timeout_hours

\* UPDATE sessions SET is_active = FALSE WHERE user_id = ? AND updated_at < ?
Sweep(S, u, threshold) ==
    [i \in DOMAIN S |->
        IF S[i].user_id = u /\ S[i].updated_at < threshold
        THEN [S[i] EXCEPT !.is_active = FALSE]
        ELSE S[i]]

\* The lookup with the user id compared to the wrong column (WHERE id = ?).
SelectActiveById(S, u) ==
    LET cand == {i \in DOMAIN S : i = u /\ S[i].is_active}
    IN  {i \in cand : \A j \in cand : S[j].updated_at <= S[i].updated_at}

\* SELECT id, context FROM sessions WHERE user_id = ? AND is_active = TRUE
\* ORDER BY updated_at DESC LIMIT 1: the rows that may come first.
SelectActive(S, u) ==
    LET cand == {i \in DOMAIN S : S[i].user_id = u /\ S[i].is_active}
    IN  {i \in cand : \A j \in cand : S[j].updated_at <= S[i].updated_at}

\* The insert under a schema whose is_active defaults to FALSE.
NewSessionRowInactive(u) ==
    [user_id |-> u, updated_at |-> now, is_active |-> FALSE, context |-> JsonDumps({})]

\* INSERT INTO sessions (user_id, context) VALUES (?, json.dumps({}))
NewSessionRow(u) ==
    [user_id |-> u, updated_at |-> now, is_active |-> TRUE, context |-> JsonDumps({})]

\* The active sessions of u, and what the specification calls expired: the
\* session's updated_at is older than now - timeout_hours.
ActiveOf(S, u) == {i \in DOMAIN S : S[i].user_id = u /\ S[i].is_active}
Expired(S, i)  == timeout_hours > 0 /\ S[i].updated_at < now - timeout_hours

\* ------------------------------------------------- session store operations
\* The sweep without the test of timeout_hours.
SweepAlways(S, u) == Sweep(S, u, TimeoutThreshold)

\* if self.timeout_hours > 0: <sweep>; await db.commit()
SweepIfEnabled(S, u) ==
    IF timeout_hours > 0 THEN Sweep(S, u, TimeoutThreshold) ELSE S

\* The lookup caching only a session it creates.
get_or_create_session_CachingNew(u) ==
    LET S1   == SweepIfEnabled(sessions, u)
        rows == SelectActive(S1, u)
    IN  /\ lastOp' = [NoOp EXCEPT !.op = "get_or_create_session", !.user = u,
                                  !.nsess = Len(sessions),
                                  !.active = ActiveOf(sessions, u)]
        /\ \/ /\ rows # {}
              /\ \E r \in rows :
                    /\ sessions' = S1
                    /\ UNCHANGED current_session
                    /\ ret' = r
           \/ /\ rows = {}
              /\ sessions' = Append(S1, NewSessionRow(u))
              /\ current_session' = [id |-> Len(S1) + 1, user_id |-> u, context |-> {}]
              /\ ret' = Len(S1) + 1
        /\ UNCHANGED messages

\* async def get_or_create_session(self, user_id)
get_or_create_session(u) ==
    LET S1   == SweepIfEnabled(sessions, u)
        rows == SelectActive(S1, u)
    IN  /\ lastOp' = [NoOp EXCEPT !.op = "get_or_create_session", !.user = u,
                                  !.nsess = Len(sessions),
                                  !.active = ActiveOf(sessions, u)]
        /\ \/ /\ rows # {}
              /\ \E r \in rows :
                    /\ sessions' = S1
                    /\ current_session' =
                          [id |-> r, user_id |-> u, context |-> LoadContext(S1[r].context)]
                    /\ ret' = r
           \/ /\ rows = {}
              /\ sessions' = Append(S1, NewSessionRow(u))
              /\ current_session' = [id |-> Len(S1) + 1, user_id |-> u, context |-> {}]
              /\ ret' = Len(S1) + 1
        /\ UNCHANGED messages

\* The touch of add_message deactivating the session when it is over age.
TouchSweeping(S, sid) ==
    [i \in DOMAIN S |->
        IF i = sid
        THEN [S[i] EXCEPT !.updated_at = now,
                          !.is_active = S[i].is_active /\ ~Expired(S, i)]
        ELSE S[i]]

\* UPDATE sessions SET updated_at = CURRENT_TIMESTAMP WHERE id = ?
Touch(S, sid) ==
    [i \in DOMAIN S |-> IF i = sid THEN [S[i] EXCEPT !.updated_at = now] ELSE S[i]]

add_message(sid, role, content) ==
    /\ messages' = Append(messages, [session_id |-> sid, role |-> role,
                                     content |-> content, timestamp |-> now])
    /\ sessions' = Touch(sessions, sid)
    /\ ret' = 0
    /\ lastOp' = [NoOp EXCEPT !.op = "add_message", !.sid = sid]
    /\ UNCHANGED current_session

\* dict.update: the keys of c replace those of old, the other keys stay.
Merged(old, c) == {kv \in old : \A kw \in c : kw[1] # kv[1]} \cup c

\* The update writing the old context merged with the new one.
StoreContextMerged(S, sid, c) ==
    [i \in DOMAIN S |->
        IF i = sid
        THEN [S[i] EXCEPT !.context = JsonDumps(Merged(LoadContext(S[i].context), c)),
                          !.updated_at = now]
        ELSE S[i]]

\* The update of update_context setting is_active = TRUE as well.
StoreContextReactivating(S, sid, c) ==
    [i \in DOMAIN S |->
        IF i = sid
        THEN [S[i] EXCEPT !.context = JsonDumps(c), !.updated_at = now,
                          !.is_active = TRUE]
        ELSE S[i]]

\* UPDATE sessions SET context = ?, updated_at = CURRENT_TIMESTAMP WHERE id = ?
StoreContext(S, sid, c) ==
    [i \in DOMAIN S |->
        IF i = sid
        THEN [S[i] EXCEPT !.context = JsonDumps(c), !.updated_at = now]
        ELSE S[i]]

\* if self.current_session and self.current_session["id"] == session_id:
\*     self.current_session["context"] = context
CacheAfterUpdate(cache, sid, c) ==
    IF cache # NoSession /\ cache.id = sid
    THEN [cache EXCEPT !.context = c]
    ELSE cache

update_context(sid, c) ==
    /\ sessions' = StoreContext(sessions, sid, c)
    /\ current_session' = CacheAfterUpdate(current_session, sid, c)
    /\ ret' = 0
    /\ lastOp' = [NoOp EXCEPT !.op = "update_context", !.sid = sid, !.ctx = c,
                              !.prev = IF sid \in DOMAIN sessions
                                       THEN sessions[sid].context ELSE <<>>]
    /\ UNCHANGED messages

\* The update of end_session refreshing updated_at as well.
DeactivateTouching(S, sid) ==
    [i \in DOMAIN S |->
        IF i = sid THEN [S[i] EXCEPT !.is_active = FALSE, !.updated_at = now] ELSE S[i]]

\* UPDATE sessions SET is_active = FALSE WHERE id = ?
Deactivate(S, sid) ==
    [i \in DOMAIN S |-> IF i = sid THEN [S[i] EXCEPT !.is_active = FALSE] ELSE S[i]]

\* The cache cleared whatever session it holds.
CacheCleared(cache, sid) == NoSession

\* if self.current_session and self.current_session["id"] == session_id:
\*     self.current_session = None
CacheAfterEnd(cache, sid) ==
    IF cache # NoSession /\ cache.id = sid THEN NoSession ELSE cache

end_session(sid) ==
    /\ sessions' = Deactivate(sessions, sid)
    /\ current_session' = CacheAfterEnd(current_session, sid)
    /\ ret' = 0
    /\ lastOp' = [NoOp EXCEPT !.op = "end_session", !.sid = sid]
    /\ UNCHANGED messages

\* ------------------------------------------------------------ get_messages
MessagesOf(M, sid) == {i \in DOMAIN M : M[i].session_id = sid}

\* ORDER BY timestamp DESC: every order of the session's rows in which the
\* timestamps do not increase; rows with equal timestamps come in any order.
OrderByTimestampDesc(M, sid) ==
    LET ids == MessagesOf(M, sid)
        n   == Cardinality(ids)
    IN  {p \in [1..n -> ids] :
            /\ \A i, j \in 1..n : i # j => p[i] # p[j]
            /\ \A i, j \in 1..n : i < j => M[p[i]].timestamp >= M[p[j]].timestamp}

\* LIMIT ?: a negative limit is no limit
LimitRows(rows, limit) ==
    IF limit < 0 THEN rows ELSE SubSeq(rows, 1, Min(limit, Len(rows)))

\* The rows left in the order of the query.
NotReversed(rows) == rows

\* reversed(rows)
Reversed(rows) == [i \in 1..Len(rows) |-> rows[Len(rows) + 1 - i]]

\* [{"role": row[0], "content": row[1]} for row in reversed(rows)]
RowsToMessages(M, rows) ==
    [i \in 1..Len(rows) |-> [role |-> M[rows[i]].role, content |-> M[rows[i]].content]]

\* every list get_messages(session_id, limit) may return
GetMessagesResults(M, sid, limit) ==
    {RowsToMessages(M, Reversed(LimitRows(p, limit))) : p \in OrderByTimestampDesc(M, sid)}

get_messages(sid, limit) ==
    /\ ret' \in GetMessagesResults(messages, sid, limit)
    /\ lastOp' = [NoOp EXCEPT !.op = "get_messages", !.sid = sid, !.limit = limit]
    /\ UNCHANGED storeVars

\* ------------------------------------------------------ pattern operations
LearningThreshold == 3     \* settings.learning_threshold

\* WHERE user_id = ? AND pattern_key = ? AND pattern_value = ?
SelectPattern(P, u, k, v) ==
    {i \in DOMAIN P : P[i].user_id = u /\ P[i].pattern_key = k /\ P[i].pattern_value = v}

\* INSERT INTO user_patterns (user_id, pattern_key, pattern_value): the count
\* defaults to 1 and is_confirmed_default to FALSE, which SQLite stores as 0.
NewPatternRow(u, k, v) ==
    [user_id |-> u, pattern_key |-> k, pattern_value |-> v, occurrence_count |-> 1,
     last_seen |-> now, is_confirmed_default |-> 0]

\* A count that skips a value.
NewCountSkipping(count) == count + 2

\* new_count = row[0] + 1
NewCount(count) == count + 1

\* The update promoting the row once its count reaches the threshold.
TrackedRowPromoted(row, new_count) ==
    [row EXCEPT !.occurrence_count = new_count, !.last_seen = now,
                !.is_confirmed_default = IF new_count >= LearningThreshold THEN 1 ELSE @]

\* UPDATE user_patterns SET occurrence_count = ?, last_seen = CURRENT_TIMESTAMP
TrackedRow(row, new_count) ==
    [row EXCEPT !.occurrence_count = new_count, !.last_seen = now]

track_pattern(u, k, v) ==
    LET rows == SelectPattern(user_patterns, u, k, v)
    IN  /\ lastOp' = [NoOp EXCEPT !.op = "track_pattern", !.user = u,
                                  !.key = k, !.value = v]
        /\ \/ /\ rows # {}
              /\ \E r \in rows :
                    LET new_count == NewCount(user_patterns[r].occurrence_count)
                    IN  /\ user_patterns' =
                              [i \in DOMAIN user_patterns |->
                                  IF i \in rows
                                  THEN TrackedRow(user_patterns[i], new_count)
                                  ELSE user_patterns[i]]
                        /\ ret' = new_count
           \/ /\ rows = {}
              /\ user_patterns' = Append(user_patterns, NewPatternRow(u, k, v))
              /\ ret' = 1

\* The rows strictly above the threshold.
PatternsAbove(P, u, k, threshold) ==
    {i \in DOMAIN P : P[i].user_id = u /\ P[i].pattern_key = k
                        /\ P[i].occurrence_count > threshold}

\* WHERE user_id = ? AND pattern_key = ? AND occurrence_count >= ?
MatchingPatterns(P, u, k, threshold) ==
    {i \in DOMAIN P : P[i].user_id = u /\ P[i].pattern_key = k
                        /\ P[i].occurrence_count >= threshold}

\* ORDER BY occurrence_count DESC: rows with equal counts come in any order.
OrderByCountDesc(P, ids) ==
    LET n == Cardinality(ids)
    IN  {p \in [1..n -> ids] :
            /\ \A i, j \in 1..n : i # j => p[i] # p[j]
            /\ \A i, j \in 1..n : i < j =>
                  P[p[i]].occurrence_count >= P[p[j]].occurrence_count}

\* {"value": row[0], "count": row[1], "is_default": row[2]}
Suggestion(row) ==
    [value |-> row.pattern_value, count |-> row.occurrence_count,
     is_default |-> row.is_confirmed_default]

get_pattern_suggestions(u, k, threshold) ==
    /\ \E p \in OrderByCountDesc(user_patterns,
                                  MatchingPatterns(user_patterns, u, k, threshold)) :
          ret' = [j \in DOMAIN p |-> Suggestion(user_patterns[p[j]])]
    /\ lastOp' = [NoOp EXCEPT !.op = "get_pattern_suggestions", !.user = u,
                              !.key = k, !.limit = threshold]
    /\ UNCHANGED user_patterns

\* UPDATE user_patterns SET is_confirmed_default = TRUE WHERE <the triple>
confirm_pattern_default(u, k, v) ==
    /\ user_patterns' =
          [i \in DOMAIN user_patterns |->
              IF i \in SelectPattern(user_patterns, u, k, v)
              THEN [user_patterns[i] EXCEPT !.is_confirmed_default = 1]
              ELSE user_patterns[i]]
    /\ ret' = 0
    /\ lastOp' = [NoOp EXCEPT !.op = "confirm_pattern_default", !.user = u,
                              !.key = k, !.value = v]

\* ------------------------------------------------------------------- clock
Tick ==
    /\ now' = now + 1
    /\ lastOp' = [NoOp EXCEPT !.op = "tick"]
    /\ UNCHANGED <<sessions, messages, current_session, timeout_hours, tz, ret>>

\* --------------------------------------- the store, one operation at a time
Init ==
    /\ sessions = <<>>
    /\ messages = <<>>
    /\ current_session = NoSession
    /\ timeout_hours \in Timeouts
    /\ now = 0
    /\ tz \in TzOffsets
    /\ ret = 0
    /\ lastOp = NoOp
    /\ steps = 0
    /\ calls = <<>>
    /\ writer = 0
    /\ h = Idle
    /\ reply = "none"
    /\ updates = 0
    /\ trace = <<>>
    /\ user_patterns = <<>>
    /\ op = NoCall
    /\ ext = NoExtract

\* Session ids a caller may pass: those of the rows, and one that has no row.
KnownIds == 1..(Len(sessions) + 1)

Step ==
    /\ steps < MaxSteps
    /\ steps' = steps + 1
    /\ UNCHANGED <<concVars, handlerVars, user_patterns, op, ext>>

OpGetOrCreateSession ==
    Step /\ \E u \in Users : get_or_create_session(u) /\ UNCHANGED envVars
OpAddMessage ==
    Step /\ \E sid \in KnownIds, m \in MessageInputs :
                add_message(sid, m[1], m[2]) /\ UNCHANGED envVars
OpUpdateContext ==
    Step /\ \E sid \in KnownIds, c \in ContextInputs :
                update_context(sid, c) /\ UNCHANGED envVars
OpEndSession ==
    Step /\ \E sid \in KnownIds : end_session(sid) /\ UNCHANGED envVars
OpTick == Step /\ Tick

Next ==
    \/ OpGetOrCreateSession
    \/ OpAddMessage
    \/ OpUpdateContext
    \/ OpEndSession
    \/ OpTick

Spec == Init /\ [][Next]_vars

\* ------------------------------- the message history of two open sessions
\* The store after get_or_create_session(1) and get_or_create_session(2).
InitMsg ==
    /\ now = 0
    /\ sessions = <<NewSessionRow(1), NewSessionRow(2)>>
    /\ messages = <<>>
    /\ current_session = [id |-> 2, user_id |-> 2, context |-> {}]
    /\ timeout_hours = 0
    /\ tz = 0
    /\ ret = 0
    /\ lastOp = NoOp
    /\ steps = 0
    /\ calls = <<>>
    /\ writer = 0
    /\ h = Idle
    /\ reply = "none"
    /\ updates = 0
    /\ trace = <<>>
    /\ user_patterns = <<>>
    /\ op = NoCall
    /\ ext = NoExtract

MsgAddMessage ==
    /\ Len(messages) < MaxMessages
    /\ \E sid \in DOMAIN sessions, m \in MessageInputs : add_message(sid, m[1], m[2])
    /\ UNCHANGED <<envVars, steps, concVars, handlerVars, user_patterns, op, ext>>
MsgGetMessages ==
    \E sid \in DOMAIN sessions, limit \in Limits :
        get_messages(sid, limit) /\ UNCHANGED <<envVars, steps, concVars, handlerVars, user_patterns, op, ext>>
MsgTick ==
    now < MaxTime /\ Tick /\ UNCHANGED <<steps, concVars, handlerVars, user_patterns, op, ext>>

NextMsg ==
    \/ MsgAddMessage
    \/ MsgGetMessages
    \/ MsgTick

SpecMsg == InitMsg /\ [][NextMsg]_vars

\* ----------------------------------- the pattern operations, one at a time
InitPat ==
    /\ sessions = <<>>
    /\ messages = <<>>
    /\ current_session = NoSession
    /\ timeout_hours = 0
    /\ now = 0
    /\ tz = 0
    /\ ret = 0
    /\ lastOp = NoOp
    /\ steps = 0
    /\ calls = <<>>
    /\ writer = 0
    /\ h = Idle
    /\ reply = "none"
    /\ updates = 0
    /\ trace = <<>>
    /\ user_patterns = <<>>
    /\ op = NoCall
    /\ ext = NoExtract

PatStep ==
    /\ steps < MaxSteps
    /\ steps' = steps + 1
    /\ UNCHANGED <<storeVars, concVars, handlerVars, op, ext>>

PatTrackPattern ==
    PatStep /\ \E t \in PatternInputs : track_pattern(t[1], t[2], t[3]) /\ UNCHANGED envVars
PatGetPatternSuggestions ==
    PatStep /\ \E u \in Users, k \in PatternKeys, threshold \in Thresholds :
                   get_pattern_suggestions(u, k, threshold) /\ UNCHANGED envVars
PatConfirmPatternDefault ==
    PatStep /\ \E t \in PatternInputs :
                   confirm_pattern_default(t[1], t[2], t[3]) /\ UNCHANGED envVars
PatTick ==
    /\ now < MaxTime
    /\ steps < MaxSteps
    /\ steps' = steps + 1
    /\ Tick
    /\ UNCHANGED <<concVars, handlerVars, user_patterns, op, ext>>

NextPat ==
    \/ PatTrackPattern
    \/ PatGetPatternSuggestions
    \/ PatConfirmPatternDefault
    \/ PatTick

SpecPat == InitPat /\ [][NextPat]_vars

\* ------------------------------ concurrent get_or_create_session (SpecConc)
\* Each call runs on its own connection and yields at every await.  A write
\* (UPDATE, INSERT) takes the database write lock when it executes and the
\* change is visible to the other connections when it is committed.
Calls == 1..NumCalls

NewCall(u) == [pc |-> "connect", user |-> u, row |-> 0, ctx |-> <<>>, ret |-> 0]

InitConc ==
    /\ now = 0
    /\ sessions \in {<<>>, <<[NewSessionRow(1) EXCEPT !.is_active = FALSE]>>}
    /\ messages = <<>>
    /\ current_session = NoSession
    /\ timeout_hours \in Timeouts
    /\ tz = 0
    /\ ret = 0
    /\ lastOp = [NoOp EXCEPT !.op = "concurrent", !.user = 1, !.nsess = Len(sessions)]
    /\ steps = 0
    /\ calls = [p \in Calls |-> NewCall(1)]
    /\ writer = 0
    /\ h = Idle
    /\ reply = "none"
    /\ updates = 0
    /\ trace = <<>>
    /\ user_patterns = <<>>
    /\ op = NoCall
    /\ ext = NoExtract

concFrame ==
    UNCHANGED <<messages, envVars, ret, lastOp, steps, handlerVars, user_patterns, op, ext>>

\* async with aiosqlite.connect(self.db_path) as db
CConnect(p) ==
    /\ calls[p].pc = "connect"
    /\ calls' = [calls EXCEPT ![p].pc = IF timeout_hours > 0 THEN "sweep" ELSE "select"]
    /\ UNCHANGED <<sessions, current_session, writer>>
    /\ concFrame

\* await db.execute("UPDATE sessions SET is_active = FALSE ...")
CSweep(p) ==
    /\ calls[p].pc = "sweep"
    /\ writer = 0
    /\ writer' = p
    /\ calls' = [calls EXCEPT ![p].pc = "sweep_commit"]
    /\ UNCHANGED <<sessions, current_session>>
    /\ concFrame

\* await db.commit()
CSweepCommit(p) ==
    /\ calls[p].pc = "sweep_commit"
    /\ sessions' = Sweep(sessions, calls[p].user, TimeoutThreshold)
    /\ writer' = 0
    /\ calls' = [calls EXCEPT ![p].pc = "select"]
    /\ UNCHANGED current_session
    /\ concFrame

\* cursor = await db.execute("SELECT id, context ..."); the row is read here
CSelect(p) ==
    /\ calls[p].pc = "select"
    /\ LET rows == SelectActive(sessions, calls[p].user)
       IN  \/ /\ rows = {}
              /\ calls' = [calls EXCEPT ![p].pc = "fetched", ![p].row = 0]
           \/ \E r \in rows :
                calls' = [calls EXCEPT ![p].pc = "fetched", ![p].row = r,
                                       ![p].ctx = sessions[r].context]
    /\ UNCHANGED <<sessions, current_session, writer>>
    /\ concFrame

\* row = await cursor.fetchone(); if row: ... self.current_session = ...; return
CFound(p) ==
    /\ calls[p].pc = "fetched"
    /\ calls[p].row # 0
    /\ current_session' = [id |-> calls[p].row, user_id |-> calls[p].user,
                           context |-> LoadContext(calls[p].ctx)]
    /\ calls' = [calls EXCEPT ![p].pc = "done", ![p].ret = calls[p].row]
    /\ UNCHANGED <<sessions, writer>>
    /\ concFrame

\* else: cursor = await db.execute("INSERT INTO sessions ...")
CInsert(p) ==
    /\ calls[p].pc = "fetched"
    /\ calls[p].row = 0
    /\ writer = 0
    /\ writer' = p
    /\ calls' = [calls EXCEPT ![p].pc = "insert_commit", ![p].row = Len(sessions) + 1]
    /\ UNCHANGED <<sessions, current_session>>
    /\ concFrame

\* session_id = cursor.lastrowid; await db.commit()
CInsertCommit(p) ==
    /\ calls[p].pc = "insert_commit"
    /\ sessions' = Append(sessions, NewSessionRow(calls[p].user))
    /\ writer' = 0
    /\ calls' = [calls EXCEPT ![p].pc = "created"]
    /\ UNCHANGED current_session
    /\ concFrame

\* self.current_session = {...}; return session_id
CReturn(p) ==
    /\ calls[p].pc = "created"
    /\ current_session' = [id |-> calls[p].row, user_id |-> calls[p].user, context |-> {}]
    /\ calls' = [calls EXCEPT ![p].pc = "done", ![p].ret = calls[p].row]
    /\ UNCHANGED <<sessions, writer>>
    /\ concFrame

NextConc ==
    \E p \in Calls :
        \/ CConnect(p)
        \/ CSweep(p)
        \/ CSweepCommit(p)
        \/ CSelect(p)
        \/ CFound(p)
        \/ CInsert(p)
        \/ CInsertCommit(p)
        \/ CReturn(p)

SpecConc == InitConc /\ [][NextConc]_vars

\* ------------------------------------ concurrent track_pattern (SpecTrack)
\* NumTrackCalls calls of track_pattern for one triple, each on its own
\* connection, yielding at every await.  As in SpecConc a write takes the
\* database write lock when it executes and is visible to the other
\* connections when it is committed.
TrackCalls  == 1..NumTrackCalls
TrackTriple == <<1, "k1", "v1">>

NewTrackCall == [pc |-> "connect", seen |-> 0, new_count |-> 0, ret |-> 0]

InitTrack ==
    /\ sessions = <<>>
    /\ messages = <<>>
    /\ current_session = NoSession
    /\ timeout_hours = 0
    /\ now = 0
    /\ tz = 0
    /\ ret = 0
    /\ lastOp = [NoOp EXCEPT !.op = "concurrent", !.user = TrackTriple[1],
                             !.key = TrackTriple[2], !.value = TrackTriple[3]]
    /\ steps = 0
    /\ calls = [p \in TrackCalls |-> NewTrackCall]
    /\ writer = 0
    /\ h = Idle
    /\ reply = "none"
    /\ updates = 0
    /\ trace = <<>>
    /\ user_patterns = <<>>
    /\ op = NoCall
    /\ ext = NoExtract

trackFrame ==
    UNCHANGED <<storeVars, envVars, ret, lastOp, steps, handlerVars, op, ext>>

\* The rows of the triple that are committed.
TrackRows == SelectPattern(user_patterns, lastOp.user, lastOp.key, lastOp.value)

\* async with aiosqlite.connect(self.db_path) as db
TConnect(p) ==
    /\ calls[p].pc = "connect"
    /\ calls' = [calls EXCEPT ![p].pc = "select"]
    /\ UNCHANGED <<user_patterns, writer>>
    /\ trackFrame

\* cursor = await db.execute("SELECT occurrence_count ..."); row = await
\* cursor.fetchone(): seen is row[0], or 0 when there is no row.
TSelect(p) ==
    /\ calls[p].pc = "select"
    /\ \/ /\ TrackRows = {}
          /\ calls' = [calls EXCEPT ![p].pc = "insert", ![p].seen = 0]
       \/ \E r \in TrackRows :
             calls' = [calls EXCEPT ![p].pc = "update",
                                    ![p].seen = user_patterns[r].occurrence_count]
    /\ UNCHANGED <<user_patterns, writer>>
    /\ trackFrame

\* if row: new_count = row[0] + 1; await db.execute("UPDATE user_patterns SET
\* occurrence_count = ?, ...", (new_count, ...))
TUpdate(p) ==
    /\ calls[p].pc = "update"
    /\ writer = 0
    /\ writer' = p
    /\ calls' = [calls EXCEPT ![p].pc = "commit", ![p].new_count = NewCount(calls[p].seen)]
    /\ UNCHANGED user_patterns
    /\ trackFrame

\* else: new_count = 1; await db.execute("INSERT INTO user_patterns ...").
\* UNIQUE(user_id, pattern_key, pattern_value): the statement raises
\* IntegrityError when the triple has a row by now; the exception leaves
\* track_pattern and the connection is closed.
TInsert(p) ==
    /\ calls[p].pc = "insert"
    /\ writer = 0
    /\ IF TrackRows = {}
       THEN /\ writer' = p
            /\ calls' = [calls EXCEPT ![p].pc = "commit", ![p].new_count = 1]
       ELSE /\ calls' = [calls EXCEPT ![p].pc = "raised"]
            /\ UNCHANGED writer
    /\ UNCHANGED user_patterns
    /\ trackFrame

\* await db.commit(); return new_count
TCommit(p) ==
    /\ calls[p].pc = "commit"
    /\ user_patterns' =
          IF calls[p].seen = 0
          THEN Append(user_patterns,
                      NewPatternRow(lastOp.user, lastOp.key, lastOp.value))
          ELSE [i \in DOMAIN user_patterns |->
                   IF i \in TrackRows
                   THEN TrackedRow(user_patterns[i], calls[p].new_count)
                   ELSE user_patterns[i]]
    /\ writer' = 0
    /\ calls' = [calls EXCEPT ![p].pc = "done", ![p].ret = calls[p].new_count]
    /\ trackFrame

NextTrack ==
    \E p \in TrackCalls :
        \/ TConnect(p)
        \/ TSelect(p)
        \/ TUpdate(p)
        \/ TInsert(p)
        \/ TCommit(p)

SpecTrack == InitTrack /\ [][NextTrack]_vars

\* ------------------------------------------------- the action extractor
\* A text is a sequence of tokens: words, labelled lines, markers and fenced
\* json blocks.  The operators below give what the patterns and the
\* substring tests of the source make of each token.  Confidence is counted
\* in hundredths.
Marker    == "ACTIONABLE ITEMS:"
MarkerAlt == "Actions to take:"

\* The fenced blocks of the texts: each one stands for a json fence opened
\* by an object.  BlockMalformed has unquoted names, BlockUnclosed lacks the
\* closing brace before its closing fence, BlockDeep nests lists deeper than
\* the interpreter's recursion limit.
BlockAuto       == "json {action: pay_invoice, requires_confirmation: false, confidence: 1.0}"
BlockTodo       == "json {action: todo, parameters: {text: buy milk}}"
BlockOver       == "json {type: transfer, confidence: 1.5}"
BlockNullParams == "json {action: email, parameters: null}"
BlockNoAction   == "json {note: none}"
BlockMalformed  == "json {action: archive} without quotes"
BlockUnclosed   == "json {action: archive"
BlockDeep       == "json {action: archive, parameters: [[[[ ... ]]]]}"
Blocks == {BlockAuto, BlockTodo, BlockOver, BlockNullParams, BlockNoAction,
           BlockMalformed, BlockUnclosed, BlockDeep}

\* A run of 490 characters holding no keyword, date, time or address.
Pad == "(490 characters)"

\* A json value that is an object, and the json null.
Dict(pairs) == [type |-> "dict", items |-> pairs]
JsonNull    == [type |-> "null", items |-> {}]

\* json.loads(match) for a match that is one whole block.
JsonLoadsBlock(tok) ==
    CASE tok = BlockAuto ->
            [action |-> "pay_invoice", requires_confirmation |-> FALSE, confidence |-> 100]
      [] tok = BlockTodo ->
            [action |-> "todo", parameters |-> Dict({<<"text", <<"buy milk">>>>})]
      [] tok = BlockOver ->
            [type |-> "transfer", confidence |-> 150]
      [] tok = BlockNullParams ->
            [action |-> "email", parameters |-> JsonNull]
      [] tok = BlockNoAction ->
            [note |-> "none"]
      [] OTHER -> [malformed |-> TRUE]

\* What json.loads(match) raises: a match running over several fences and a
\* block with unquoted names are not json; the deep block exhausts the stack.
JsonLoadsError(match) ==
    CASE Len(match) > 1 -> "JSONDecodeError"
      [] match[1] \in {BlockMalformed, BlockUnclosed} -> "JSONDecodeError"
      [] match[1] = BlockDeep -> "RecursionError"
      [] OTHER -> ""

\* dict.get(key, default)
Get(d, key, default) == IF key \in DOMAIN d THEN d[key] ELSE default

\* text.lower(), token by token
Lower(tok) ==
    CASE tok = "Meeting" -> "meeting"
      [] tok = "TODO" -> "todo"
      [] OTHER -> tok

\* The trigger keywords of _parse_implicit_actions.
CalendarKeywords == {"meeting", "appointment", "schedule", "book", "calendar"}
EmailKeywords    == {"email", "send", "reply", "message"}
TodoKeywords     == {"todo", "task", "remind", "remember", "don't forget"}

\* The keywords that are substrings of a lower-cased token: a keyword is
\* found in itself and in the blocks that spell it.
KeywordsIn(tok) ==
    CASE tok \in CalendarKeywords \cup EmailKeywords \cup TodoKeywords -> {tok}
      [] tok = BlockTodo -> {"todo"}
      [] tok = BlockNullParams -> {"email"}
      [] OTHER -> {}

\* any(keyword in text_lower for keyword in keywords)
HasAny(text, keywords) ==
    \E i \in DOMAIN text : KeywordsIn(Lower(text[i])) \cap keywords # {}

\* A test that takes every fence for marked.
HasFence(text) == \E i \in DOMAIN text : text[i] \in Blocks

\* "ACTIONABLE ITEMS:" in text or "Actions to take:" in text
HasMarker(text) == \E i \in DOMAIN text : text[i] \in {Marker, MarkerAlt}

\* The labelled lines _extract_conversation_context looks for.
Label(tok) ==
    CASE tok = "Contact name: Anna"            -> <<"contact_name", "Anna">>
      [] tok = "PARTICIPANTS: LEFT side: Anna" -> <<"other_person", "Anna">>
      [] tok = "Platform: WhatsApp"            -> <<"platform", "WhatsApp">>
      [] OTHER -> <<"", "">>

\* _extract_conversation_context: re.search keeps the first line of a label.
ExtractConversationContext(text) ==
    {Label(text[i]) : i \in {j \in DOMAIN text :
        /\ Label(text[j])[1] # ""
        /\ \A k \in 1..(j - 1) : Label(text[k])[1] # Label(text[j])[1]}}

\* context.get(key): the value, or "" for None
ContextGet(context, key) ==
    IF \E kv \in context : kv[1] = key
    THEN (CHOOSE kv \in context : kv[1] = key)[2]
    ELSE ""

\* re.findall(json_pattern, text, re.DOTALL): the lazy body runs to the
\* first closing brace that is followed by a fence, so an unclosed block
\* runs on through the next block that closes.
Closes(tok) == tok \in Blocks \ {BlockUnclosed}

RECURSIVE FirstClosing(_, _)
FirstClosing(text, i) ==
    IF i > Len(text) THEN 0
    ELSE IF Closes(text[i]) THEN i
    ELSE FirstClosing(text, i + 1)

RECURSIVE FindBlocks(_)
FindBlocks(text) ==
    IF text = <<>> THEN <<>>
    ELSE IF Head(text) \notin Blocks THEN FindBlocks(Tail(text))
    ELSE LET k == FirstClosing(text, 1)
         IN  IF k = 0 THEN <<>>
             ELSE <<SubSeq(text, 1, k)>> \o FindBlocks(SubSeq(text, k + 1, Len(text)))

\* data.get('action') or data.get('type')
ActionOrType(data) ==
    IF Get(data, "action", "None") \in {"None", ""}
    THEN Get(data, "type", "None")
    ELSE data.action

\* The ActionItem built from a parsed block.
ExplicitItem(data, context) ==
    [action_type |-> ActionOrType(data),
     parameters |-> Get(data, "parameters", Dict({})),
     requires_confirmation |-> Get(data, "requires_confirmation", TRUE),
     confidence |-> Get(data, "confidence", 80),
     context |-> context]

\* The loop of _parse_explicit_actions over the matches: a match that is no
\* json is skipped, a parsed object with an action or a type gives an item.
RECURSIVE ItemsOfMatches(_, _)
ItemsOfMatches(matches, context) ==
    IF matches = <<>> THEN <<>>
    ELSE LET match == Head(matches)
             data  == JsonLoadsBlock(match[1])
             item  == IF /\ JsonLoadsError(match) = ""
                         /\ ("action" \in DOMAIN data \/ "type" \in DOMAIN data)
                      THEN <<ExplicitItem(data, context)>> ELSE <<>>
         IN  item \o ItemsOfMatches(Tail(matches), context)

ParseExplicitActions(text, context) == ItemsOfMatches(FindBlocks(text), context)

\* The five date_patterns, in the order of the list, and what
\* `'am' in pattern or 'pm' in pattern or ':' in pattern` finds in the
\* source text of each: the month-day, clock and hour patterns are written
\* with non-capturing groups, which are spelled with a colon.
DatePatterns == <<"weekday", "relative", "month_day", "clock", "hour">>
PatternHas(pattern) ==
    CASE pattern = "weekday"   -> {}
      [] pattern = "relative"  -> {}
      [] pattern = "month_day" -> {":"}
      [] pattern = "clock"     -> {":", "am", "pm"}
      [] pattern = "hour"      -> {":", "am", "pm"}
IsTimePattern(pattern) == PatternHas(pattern) \cap {"am", "pm", ":"} # {}

\* re.findall(pattern, token) on a lower-cased token
FindInToken(pattern, tok) ==
    CASE pattern = "weekday" /\ tok \in {"monday", "friday"} -> <<tok>>
      [] pattern = "relative" /\ tok \in {"tomorrow", "today", "next week"} -> <<tok>>
      [] pattern = "month_day" /\ tok = "5th of jan" -> <<tok>>
      [] pattern = "clock" /\ tok = "10:30 am" -> <<tok>>
      [] pattern = "hour" /\ tok = "10:30 am" -> <<"30 am">>
      [] pattern = "hour" /\ tok = "3pm" -> <<tok>>
      [] OTHER -> <<>>

\* re.findall(pattern, text_lower)
RECURSIVE FindAll(_, _)
FindAll(pattern, text) ==
    IF text = <<>> THEN <<>>
    ELSE FindInToken(pattern, Lower(Head(text))) \o FindAll(pattern, Tail(text))

\* The list times (toTimes) or dates (otherwise) after the loop has run
\* over the patterns i, i + 1, ...
RECURSIVE Extended(_, _, _)
Extended(i, text, toTimes) ==
    IF i > Len(DatePatterns) THEN <<>>
    ELSE (IF IsTimePattern(DatePatterns[i]) = toTimes
          THEN FindAll(DatePatterns[i], text) ELSE <<>>)
         \o Extended(i + 1, text, toTimes)

\* re.findall(email_pattern, text)
EmailsInToken(tok) ==
    IF tok \in {"john@example.com", "ann@example.org"} THEN <<tok>> ELSE <<>>

RECURSIVE FindEmails(_)
FindEmails(text) ==
    IF text = <<>> THEN <<>>
    ELSE EmailsInToken(Head(text)) \o FindEmails(Tail(text))

\* len() of a token with the blank that follows it, and of a text
Width(tok) == IF tok = Pad THEN 490 ELSE IF tok \in Blocks THEN 100 ELSE 10

RECURSIVE TextWidth(_)
TextWidth(text) == IF text = <<>> THEN 0 ELSE Width(Head(text)) + TextWidth(Tail(text))

\* text[:n]: the tokens that fit, and the piece of the token that is cut
RECURSIVE Slice(_, _)
Slice(text, n) ==
    IF text = <<>> \/ n = 0 THEN <<>>
    ELSE IF Width(Head(text)) <= n
         THEN <<Head(text)>> \o Slice(Tail(text), n - Width(Head(text)))
         ELSE <<"(cut)">>

\* An excerpt that is the whole text.
WholeText(text) == text

\* text[:500]
ExcerptChars == 500
Excerpt(text) == Slice(text, ExcerptChars)

\* confidence=0.7 if dates and times else 0.5
CalendarConfidence(dates, times) == IF dates # <<>> /\ times # <<>> THEN 70 ELSE 50

\* An email confidence that does not look at the addresses.
EmailConfidenceFlat(emails) == 60

\* confidence=0.6 if emails else 0.4
EmailConfidence(emails) == IF emails # <<>> THEN 60 ELSE 40

\* _parse_implicit_actions: the calendar, the email and the todo detector,
\* in this order.
CalendarItems(text, context) ==
    LET dates == Extended(1, text, FALSE)
        times == Extended(1, text, TRUE)
        attendee == ContextGet(context, "other_person")
    IN  IF HasAny(text, CalendarKeywords) /\ (dates # <<>> \/ times # <<>>)
        THEN <<[action_type |-> "calendar_event",
                parameters |-> Dict({<<"extracted_dates", dates>>,
                                     <<"extracted_times", times>>,
                                     <<"original_text", Excerpt(text)>>}
                                    \cup (IF attendee # ""
                                          THEN {<<"suggested_attendee", <<attendee>>>>}
                                          ELSE {})),
                requires_confirmation |-> TRUE,
                confidence |-> CalendarConfidence(dates, times),
                context |-> context]>>
        ELSE <<>>

EmailItems(text) ==
    LET emails == FindEmails(text)
    IN  IF HasAny(text, EmailKeywords) /\ (emails # <<>> \/ HasAny(text, {"email"}))
        THEN <<[action_type |-> "email",
                parameters |-> Dict({<<"extracted_emails", emails>>,
                                     <<"original_text", Excerpt(text)>>}),
                requires_confirmation |-> TRUE,
                confidence |-> EmailConfidence(emails),
                context |-> {}]>>
        ELSE <<>>

TodoItems(text) ==
    IF HasAny(text, TodoKeywords)
    THEN <<[action_type |-> "todo",
            parameters |-> Dict({<<"original_text", Excerpt(text)>>}),
            requires_confirmation |-> TRUE,
            confidence |-> 50,
            context |-> {}]>>
    ELSE <<>>

ParseImplicitActions(text, context) ==
    CalendarItems(text, context) \o EmailItems(text) \o TodoItems(text)

\* extract_from_analysis: the list it returns when no call inside it raises,
\* and the exception that leaves it otherwise.
ExplicitActions(text) ==
    IF HasMarker(text)
    THEN ParseExplicitActions(text, ExtractConversationContext(text)) ELSE <<>>

extract_from_analysis(text) ==
    ExplicitActions(text) \o ParseImplicitActions(text, ExtractConversationContext(text))

ExtractError(text) ==
    IF /\ HasMarker(text)
       /\ \E i \in DOMAIN FindBlocks(text) :
             JsonLoadsError(FindBlocks(text)[i]) = "RecursionError"
    THEN "RecursionError" ELSE ""

\* action.parameters.get(key, [])
ParamList(action, key) ==
    IF \E kv \in action.parameters.items : kv[1] = key
    THEN (CHOOSE kv \in action.parameters.items : kv[1] = key)[2]
    ELSE <<>>

\* The exception format_for_confirmation raises: the calendar and the email
\* branch call .get on the parameters, which only an object has.
FormatError(action) ==
    IF /\ action.action_type \in {"calendar_event", "email"}
       /\ action.parameters.type # "dict"
    THEN "AttributeError" ELSE ""

\* format_for_confirmation: the lines of the text shown to the user.
format_for_confirmation(action) ==
    CASE action.action_type = "calendar_event" ->
            LET dates == ParamList(action, "extracted_dates")
                times == ParamList(action, "extracted_times")
                attendee == ParamList(action, "suggested_attendee")
                platform == ContextGet(action.context, "platform")
            IN  <<"Calendar Event Detected", "Dates mentioned:">>
                \o (IF dates # <<>> THEN dates ELSE <<"None found">>)
                \o <<"Times mentioned:">>
                \o (IF times # <<>> THEN times ELSE <<"None found">>)
                \o (IF attendee # <<>> THEN <<"Suggested attendee:">> \o attendee ELSE <<>>)
                \o (IF platform # "" THEN <<"Source:", platform>> ELSE <<>>)
                \o <<"Should I help you create this calendar event?">>
      [] action.action_type = "email" ->
            LET emails == ParamList(action, "extracted_emails")
            IN  <<"Email Action Detected", "Email addresses found:">>
                \o (IF emails # <<>> THEN emails ELSE <<"None">>)
                \o <<"Should I help you draft this email?">>
      [] action.action_type = "todo" ->
            <<"Todo/Reminder Detected", "Should I add this to your todo list?">>
      [] OTHER -> <<"Action detected:", action.action_type>>

\* ------------------------------------- calls to the extractor (SpecX)
\* The texts handed to the extractor: word texts of up to MaxWords tokens,
\* and texts with up to MaxBlocks fenced blocks, with or without a marker
\* and a labelled line in front and words behind.
Words == {"hello", "Meeting", "tomorrow", "monday", "5th of jan", "3pm",
          "10:30 am", "reply", "email", "john@example.com", "ann@example.org",
          "TODO", Pad}
Prefixes == {<<>>, <<Marker>>, <<MarkerAlt>>, <<"Platform: WhatsApp", Marker>>,
             <<"PARTICIPANTS: LEFT side: Anna", Marker>>}
Suffixes == {<<>>, <<"TODO">>, <<"Meeting", "tomorrow">>}

SeqsUpTo(S, n) == UNION {[1..k -> S] : k \in 0..n}

Texts ==
    SeqsUpTo(Words, MaxWords)
    \cup {p \o b \o w : p \in Prefixes, b \in SeqsUpTo(Blocks, MaxBlocks), w \in Suffixes}

\* The text of the calls made between two calls on the subject.
OtherText == <<"reply", "john@example.com">>

\* The extractor of the message handlers and one more instance.
Extractors == {"handlers", "other"}

InitX ==
    /\ sessions = <<>>
    /\ messages = <<>>
    /\ current_session = NoSession
    /\ timeout_hours = 0
    /\ now = 0
    /\ tz = 0
    /\ ret = 0
    /\ lastOp = NoOp
    /\ steps = 0
    /\ calls = <<>>
    /\ writer = 0
    /\ h = Idle
    /\ reply = "none"
    /\ updates = 0
    /\ trace = <<>>
    /\ user_patterns = <<>>
    /\ op = NoCall
    /\ \E t \in Texts : ext = [NoExtract EXCEPT !.subject = t]

xFrame == UNCHANGED <<storeVars, envVars, ret, lastOp, steps, concVars, handlerVars,
                      user_patterns, op>>

\* The record of a call of extract_from_analysis(t) on instance inst that
\* starts from the list actions and returns or raises.
AfterExtract(inst, t, actions) ==
    LET error  == ExtractError(t)
        result == IF error = "" THEN actions \o extract_from_analysis(t) ELSE <<>>
    IN  [ext EXCEPT !.pc = IF error = "" THEN "returned" ELSE "raised",
                  !.text = t, !.inst = inst, !.result = result, !.error = error,
                  !.explicit = IF error = "" THEN Len(actions) + Len(ExplicitActions(t))
                               ELSE 0,
                  !.shown = <<>>,
                  !.first = IF ~ext.first.done /\ t = ext.subject
                            THEN [done |-> TRUE, inst |-> inst, result |-> result,
                                  error |-> error]
                            ELSE @,
                  !.between = IF ext.first.done /\ t # ext.subject THEN TRUE ELSE @]

\* An instance that keeps its list of actions from one call to the next.
XExtractKeeping ==
    /\ \E inst \in Extractors, t \in {ext.subject, OtherText} :
          ext' = AfterExtract(inst, t, IF ext.inst = inst THEN ext.result ELSE <<>>)
    /\ xFrame

\* extract_from_analysis(t) on one of the instances: actions = [] at entry,
\* the instance is not read or written.
XExtract ==
    /\ \E inst \in Extractors, t \in {ext.subject, OtherText} :
          ext' = AfterExtract(inst, t, <<>>)
    /\ xFrame

\* What format_for_confirmation(action) gives: the text, or the exception.
Formatted(action) ==
    IF FormatError(action) = ""
    THEN [text |-> format_for_confirmation(action), error |-> ""]
    ELSE [text |-> <<>>, error |-> FormatError(action)]

\* format_for_confirmation is called on every action of the list returned.
XFormat ==
    /\ ext.pc = "returned"
    /\ ext' = [ext EXCEPT !.pc = "shown",
                      !.shown = [i \in DOMAIN ext.result |-> Formatted(ext.result[i])]]
    /\ xFrame

NextX ==
    \/ XExtract
    \/ XFormat

SpecX == InitX /\ [][NextX]_vars

\* ------------------------------------- the message handlers (SpecH)
\* Updates are handled one after the other (the Application is built without
\* concurrent_updates); a handler yields at every await, and each action
\* below runs from one await to the next.  trace lists what the handler has
\* done since its update was delivered.
AuthorizedUser == 1     \* settings.telegram_user_id
DefaultLimit   == 20    \* get_messages(session_id, limit=20)

\* context_data["user_name"] = update.effective_user.first_name
UserName(u)    == {<<"user_name", u>>}
HasUserName(c) == \E kv \in c : kv[1] = "user_name"

HandlerKinds == {"text", "calendar", "photo", "new", "end"}
AiKinds      == {"text", "calendar", "photo"}

\* What the user sends, and what the AI backend may answer.
MessageText   == <<"hello">>
CalendarQuery == <<"List my upcoming calendar events for the next 7 days.">>
Caption       == <<"What's in this image?">>
Responses     == {<<"ok">>, <<Marker, BlockAuto, "todo">>}

\* The text of the exception a failing call raises.
ExceptionTexts == {"disk I/O error", "overloaded_error"}

\* The message the handler appends for the user.
UserContent(kind) ==
    CASE kind = "text"     -> MessageText
      [] kind = "calendar" -> CalendarQuery
      [] kind = "photo"    -> <<"[Image uploaded]">> \o Caption

\* The reply of the handler's except clause.
Apology(kind) ==
    CASE kind = "text" ->
            "Sorry, I encountered an error processing your message. Please try again."
      [] kind = "calendar" ->
            "Sorry, I couldn't fetch your calendar events. Please make sure the Google Calendar integration is properly configured."
      [] kind = "photo" ->
            "Sorry, I couldn't process the image. Please try again."

\* The handlers run on a host whose local time is UTC and whose session
\* timeout is the longest one; the offset and the other timeouts are the
\* subject of Spec.
InitH ==
    /\ sessions = <<>>
    /\ messages = <<>>
    /\ current_session = NoSession
    /\ timeout_hours = MaxTimeout
    /\ now = 0
    /\ tz = 0
    /\ ret = 0
    /\ lastOp = NoOp
    /\ steps = 0
    /\ calls = <<>>
    /\ writer = 0
    /\ h = Idle
    /\ reply = "none"
    /\ updates = 0
    /\ trace = <<>>
    /\ user_patterns = <<>>
    /\ op = NoCall
    /\ ext = NoExtract

hFrame == UNCHANGED <<envVars, steps, concVars, user_patterns, op, ext>>

\* The transport hands the next update to its handler.
HDeliver ==
    /\ h = Idle
    /\ updates < MaxUpdates
    /\ updates' = updates + 1
    /\ \E k \in HandlerKinds, u \in Users :
          /\ h' = [Idle EXCEPT !.kind = k, !.pc = "auth", !.user = u]
          /\ trace' = <<k>>
    /\ UNCHANGED <<storeVars, ret, lastOp, reply>>
    /\ hFrame

\* The process is restarted between two updates: the store is on disk, the
\* cache starts as None.
HRestart ==
    /\ h = Idle
    /\ current_session # NoSession
    /\ current_session' = NoSession
    /\ UNCHANGED <<sessions, messages, ret, lastOp, handlerVars>>
    /\ hFrame

\* _check_authorization: another user gets the refusal and nothing else.
HAuthRefuse ==
    /\ h.pc = "auth"
    /\ h.user # AuthorizedUser
    /\ reply' = "unauthorized"
    /\ trace' = Append(trace, "refuse")
    /\ h' = Idle
    /\ UNCHANGED <<storeVars, ret, lastOp, updates>>
    /\ hFrame

\* The handler going on without the test of the user id.
HAuthPassAnyone ==
    /\ h.pc = "auth"
    /\ h' = [h EXCEPT
                !.pc = CASE h.kind \in AiKinds -> "typing"
                         [] h.kind = "new"  ->
                              IF current_session # NoSession THEN "end" ELSE "goc"
                         [] h.kind = "end"  ->
                              IF current_session # NoSession THEN "end" ELSE "reply_none",
                !.sid = IF h.kind \in AiKinds THEN 0 ELSE current_session.id]
    /\ UNCHANGED <<storeVars, ret, lastOp, reply, updates, trace>>
    /\ hFrame

\* _check_authorization passes; the handler runs to its first await.
\* /new and /end read current_session here.
HAuthPass ==
    /\ h.pc = "auth"
    /\ h.user = AuthorizedUser
    /\ h' = [h EXCEPT
                !.pc = CASE h.kind \in AiKinds -> "typing"
                         [] h.kind = "new"  ->
                              IF current_session # NoSession THEN "end" ELSE "goc"
                         [] h.kind = "end"  ->
                              IF current_session # NoSession THEN "end" ELSE "reply_none",
                !.sid = IF h.kind \in AiKinds THEN 0 ELSE current_session.id]
    /\ UNCHANGED <<storeVars, ret, lastOp, reply, updates, trace>>
    /\ hFrame

\* await update.effective_message.chat.send_action(ChatAction.TYPING)
HTyping ==
    /\ h.pc = "typing"
    /\ h' = [h EXCEPT !.pc = "goc"]
    /\ UNCHANGED <<storeVars, ret, lastOp, reply, updates, trace>>
    /\ hFrame

\* session_id = await self.sessions.get_or_create_session(user_id)
HGetOrCreate ==
    /\ h.pc = "goc"
    /\ get_or_create_session(h.user)
    /\ h' = [h EXCEPT !.pc = CASE h.kind = "text"     -> "add_user"
                               [] h.kind = "calendar" -> "ctx"
                               [] h.kind = "photo"    -> "download"
                               [] h.kind = "new"      -> "reply_new",
                      !.sid = ret']
    /\ trace' = Append(trace, "goc")
    /\ UNCHANGED <<reply, updates>>
    /\ hFrame

\* photo_file = await ...get_file(); await photo_file.download_to_memory(...)
HDownload ==
    /\ h.pc = "download"
    /\ h' = [h EXCEPT !.pc = "ctx"]
    /\ trace' = Append(trace, "download")
    /\ UNCHANGED <<storeVars, ret, lastOp, reply, updates>>
    /\ hFrame

\* handle_calendar and handle_photo:
\* context_data = self.sessions.current_session.get("context", {})
\* if "user_name" not in context_data: context_data["user_name"] = ...
\* context_data is the cache's own dict: the assignment changes the cache.
HReadContext ==
    /\ h.pc = "ctx"
    /\ IF current_session = NoSession
       THEN /\ h' = [h EXCEPT !.pc = "except", !.exc = "AttributeError"]
            /\ UNCHANGED current_session
       ELSE IF HasUserName(current_session.context)
       THEN /\ h' = [h EXCEPT !.pc = IF h.kind = "calendar" THEN "add_user" ELSE "claude"]
            /\ UNCHANGED current_session
       ELSE /\ h' = [h EXCEPT !.pc = "update"]
            /\ current_session' =
                  [current_session EXCEPT !.context = Merged(@, UserName(h.user))]
    /\ UNCHANGED <<sessions, messages, ret, lastOp, reply, updates, trace>>
    /\ hFrame

\* await self.sessions.add_message(session_id, "user", <the user's message>)
HAddUser ==
    /\ h.pc = "add_user"
    /\ add_message(h.sid, "user", UserContent(h.kind))
    /\ h' = [h EXCEPT !.pc = IF h.kind = "photo" THEN "add_asst" ELSE "get"]
    /\ trace' = Append(trace, "add_user")
    /\ UNCHANGED <<reply, updates>>
    /\ hFrame

\* messages = await self.sessions.get_messages(session_id)
\* and, in handle_text_message, the lines that follow it:
\* context_data = self.sessions.current_session.get("context", {})
\* if "user_name" not in context_data: context_data["user_name"] = ...
HGetMessages ==
    /\ h.pc = "get"
    /\ ret' \in GetMessagesResults(messages, h.sid, DefaultLimit)
    /\ lastOp' = [NoOp EXCEPT !.op = "get_messages", !.sid = h.sid, !.limit = DefaultLimit]
    /\ IF h.kind = "calendar"
       THEN /\ h' = [h EXCEPT !.pc = "claude", !.msgs = ret']
            /\ UNCHANGED current_session
       ELSE IF current_session = NoSession
       THEN /\ h' = [h EXCEPT !.pc = "except", !.msgs = ret', !.exc = "AttributeError"]
            /\ UNCHANGED current_session
       ELSE IF HasUserName(current_session.context)
       THEN /\ h' = [h EXCEPT !.pc = "claude", !.msgs = ret']
            /\ UNCHANGED current_session
       ELSE /\ h' = [h EXCEPT !.pc = "update", !.msgs = ret']
            /\ current_session' =
                  [current_session EXCEPT !.context = Merged(@, UserName(h.user))]
    /\ trace' = Append(trace, "get")
    /\ UNCHANGED <<sessions, messages, reply, updates>>
    /\ hFrame

\* await self.sessions.update_context(session_id, context_data)
HUpdateContext ==
    /\ h.pc = "update"
    /\ update_context(h.sid, current_session.context)
    /\ h' = [h EXCEPT !.pc = IF h.kind = "calendar" THEN "add_user" ELSE "claude"]
    /\ trace' = Append(trace, "update")
    /\ UNCHANGED <<reply, updates>>
    /\ hFrame

\* response = await self.claude.send_message(messages, context_data)
\* response = await self.claude.analyze_image(...)
HClaude ==
    /\ h.pc = "claude"
    /\ \E r \in Responses :
          h' = [h EXCEPT !.pc = IF h.kind = "photo" THEN "add_user" ELSE "add_asst",
                         !.response = r]
    /\ trace' = Append(trace, "ai")
    /\ UNCHANGED <<storeVars, ret, lastOp, reply, updates>>
    /\ hFrame

\* await self.sessions.add_message(session_id, "assistant", response)
HAddAssistant ==
    /\ h.pc = "add_asst"
    /\ add_message(h.sid, "assistant", h.response)
    /\ h' = [h EXCEPT !.pc = "reply"]
    /\ trace' = Append(trace, "add_asst")
    /\ UNCHANGED <<reply, updates>>
    /\ hFrame

\* await update.effective_message.reply_text(response); handle_photo goes on:
\* actions = self.action_extractor.extract_from_analysis(response)
HReply ==
    /\ h.pc = "reply"
    /\ reply' = h.response
    /\ IF h.kind = "photo"
       THEN LET actions == extract_from_analysis(h.response)
            IN  /\ trace' = trace \o <<"reply", "extract">>
                /\ h' = IF actions # <<>>
                        THEN [h EXCEPT !.pc = "header", !.actions = actions]
                        ELSE Idle
       ELSE /\ trace' = Append(trace, "reply")
            /\ h' = Idle
    /\ UNCHANGED <<storeVars, ret, lastOp, updates>>
    /\ hFrame

\* if actions: await reply_text("I detected potential actions in this image:")
HActionsHeader ==
    /\ h.pc = "header"
    /\ reply' = "I detected potential actions in this image:"
    /\ trace' = Append(trace, "header")
    /\ h' = [h EXCEPT !.pc = "confirm"]
    /\ UNCHANGED <<storeVars, ret, lastOp, updates>>
    /\ hFrame

\* The loop body with an action that does not require confirmation carried out.
HPresentActionAutoExecute ==
    /\ h.pc = "confirm"
    /\ reply' = format_for_confirmation(Head(h.actions))
    /\ trace' = IF Head(h.actions).requires_confirmation
                THEN Append(trace, "confirm")
                ELSE trace \o <<"confirm", "execute">>
    /\ h' = IF Tail(h.actions) = <<>> THEN Idle ELSE [h EXCEPT !.actions = Tail(@)]
    /\ UNCHANGED <<storeVars, ret, lastOp, updates>>
    /\ hFrame

\* for action in actions:
\*     await reply_text(self.action_extractor.format_for_confirmation(action))
HPresentAction ==
    /\ h.pc = "confirm"
    /\ reply' = format_for_confirmation(Head(h.actions))
    /\ trace' = Append(trace, "confirm")
    /\ h' = IF Tail(h.actions) = <<>> THEN Idle ELSE [h EXCEPT !.actions = Tail(@)]
    /\ UNCHANGED <<storeVars, ret, lastOp, updates>>
    /\ hFrame

\* A store operation, the download or the AI call raises inside the try of
\* handle_text_message, handle_calendar or handle_photo.  A failed
\* get_or_create_session may have committed its sweep already.
HFail ==
    /\ h.kind \in AiKinds
    /\ h.pc \in {"goc", "download", "add_user", "get", "update", "claude", "add_asst"}
    /\ sessions' \in IF h.pc = "goc"
                      THEN {sessions, SweepIfEnabled(sessions, h.user)}
                      ELSE {sessions}
    /\ \E x \in ExceptionTexts : h' = [h EXCEPT !.pc = "except", !.exc = x]
    /\ trace' = Append(trace, "fail")
    /\ UNCHANGED <<messages, current_session, ret, lastOp, reply, updates>>
    /\ hFrame

\* The except clause echoing the exception.
HExceptEcho ==
    /\ h.pc = "except"
    /\ reply' = h.exc
    /\ trace' = Append(trace, "apology")
    /\ h' = Idle
    /\ UNCHANGED <<storeVars, ret, lastOp, updates>>
    /\ hFrame

\* except Exception as e: logger.error(...); await reply_text("Sorry, ...")
HExcept ==
    /\ h.pc = "except"
    /\ reply' = Apology(h.kind)
    /\ trace' = Append(trace, "apology")
    /\ h' = Idle
    /\ UNCHANGED <<storeVars, ret, lastOp, updates>>
    /\ hFrame

\* /new and /end: await self.sessions.end_session(current_session["id"])
HEndSession ==
    /\ h.pc = "end"
    /\ end_session(h.sid)
    /\ h' = [h EXCEPT !.pc = IF h.kind = "new" THEN "goc" ELSE "reply_end"]
    /\ trace' = Append(trace, "end")
    /\ UNCHANGED <<reply, updates>>
    /\ hFrame

\* The replies that end /new and /end.
HCommandReply ==
    /\ h.pc \in {"reply_new", "reply_end", "reply_none"}
    /\ reply' = CASE h.pc = "reply_new"  -> "started"
                  [] h.pc = "reply_end"  -> "ended"
                  [] h.pc = "reply_none" -> "no_active"
    /\ trace' = Append(trace, "reply")
    /\ h' = Idle
    /\ UNCHANGED <<storeVars, ret, lastOp, updates>>
    /\ hFrame

\* A store operation of /new or /end raises: nothing catches it in the
\* handler, and the application's error handler replies.
HCommandFail ==
    /\ h.kind \in {"new", "end"}
    /\ h.pc \in {"end", "goc"}
    /\ sessions' \in IF h.pc = "goc"
                      THEN {sessions, SweepIfEnabled(sessions, h.user)}
                      ELSE {sessions}
    /\ reply' = "error"
    /\ trace' = trace \o <<"fail", "error_reply">>
    /\ h' = Idle
    /\ UNCHANGED <<messages, current_session, ret, lastOp, updates>>
    /\ hFrame

HTick ==
    /\ now < MaxTime
    /\ Tick
    /\ UNCHANGED <<steps, concVars, handlerVars, user_patterns, op, ext>>

NextH ==
    \/ HDeliver
    \/ HRestart
    \/ HAuthRefuse
    \/ HAuthPass
    \/ HTyping
    \/ HGetOrCreate
    \/ HDownload
    \/ HReadContext
    \/ HAddUser
    \/ HGetMessages
    \/ HUpdateContext
    \/ HClaude
    \/ HAddAssistant
    \/ HReply
    \/ HActionsHeader
    \/ HPresentAction
    \/ HFail
    \/ HExcept
    \/ HEndSession
    \/ HCommandReply
    \/ HCommandFail
    \/ HTick

SpecH == InitH /\ [][NextH]_vars

\* --------------- the store operations, statement by statement (SpecF)
\* One call at a time.  The call works on its connection: op.S and op.M are
\* the tables as the connection sees them, its uncommitted changes
\* included; sessions and messages are what is committed, which is what any
\* other connection reads and what is left after a failure or a shutdown.
\* Any await of the call may raise; the connection is then closed and its
\* uncommitted changes are rolled back.
InitF ==
    /\ sessions = <<>>
    /\ messages = <<>>
    /\ current_session = NoSession
    /\ timeout_hours \in Timeouts
    /\ now = 0
    /\ tz = 0
    /\ ret = 0
    /\ lastOp = NoOp
    /\ steps = 0
    /\ calls = <<>>
    /\ writer = 0
    /\ h = Idle
    /\ reply = "none"
    /\ updates = 0
    /\ trace = <<>>
    /\ user_patterns = <<>>
    /\ op = NoCall
    /\ ext = NoExtract

fFrame == UNCHANGED <<envVars, lastOp, concVars, handlerVars, user_patterns, ext>>

InProgress == op.pc \notin {"idle", "returned", "raised", "killed"}

\* The caller makes the next call; op.cache, op.S0 and op.M0 keep what the
\* cache and the store held when the call was made.
FCall ==
    /\ ~InProgress
    /\ steps < MaxOps
    /\ steps' = steps + 1
    /\ LET call == [NoCall EXCEPT !.pc = "connect", !.cache = current_session,
                                  !.S0 = sessions, !.M0 = messages]
       IN  \/ \E u \in Users :
                op' = [call EXCEPT !.name = "get_or_create_session", !.user = u]
           \/ \E sid \in KnownIds, m \in MessageInputs :
                op' = [call EXCEPT !.name = "add_message", !.sid = sid,
                                   !.role = m[1], !.content = m[2]]
           \/ \E sid \in KnownIds, c \in ContextInputs :
                op' = [call EXCEPT !.name = "update_context", !.sid = sid, !.ctx = c]
           \/ \E sid \in KnownIds :
                op' = [call EXCEPT !.name = "end_session", !.sid = sid]
           \/ \E sid \in KnownIds, limit \in Limits :
                op' = [call EXCEPT !.name = "get_messages", !.sid = sid, !.limit = limit]
    /\ UNCHANGED <<storeVars, ret>>
    /\ fFrame

\* async with aiosqlite.connect(self.db_path) as db
FConnect ==
    /\ op.pc = "connect"
    /\ op' = [op EXCEPT !.S = sessions, !.M = messages,
                        !.pc = CASE op.name = "get_or_create_session" ->
                                      IF timeout_hours > 0 THEN "sweep" ELSE "select"
                                 [] op.name = "add_message"  -> "insert"
                                 [] op.name = "get_messages" -> "select"
                                 [] OTHER -> "update"]
    /\ UNCHANGED <<storeVars, ret, steps>>
    /\ fFrame

\* get_or_create_session: await db.execute("UPDATE sessions SET is_active = FALSE ...")
FSweep ==
    /\ op.pc = "sweep"
    /\ op' = [op EXCEPT !.S = Sweep(op.S, op.user, TimeoutThreshold), !.pc = "sweep_commit"]
    /\ UNCHANGED <<storeVars, ret, steps>>
    /\ fFrame

\* get_or_create_session: await db.commit() after the sweep
FSweepCommit ==
    /\ op.pc = "sweep_commit"
    /\ sessions' = op.S
    /\ op' = [op EXCEPT !.pc = "select"]
    /\ UNCHANGED <<messages, current_session, ret, steps>>
    /\ fFrame

\* get_or_create_session: the SELECT and fetchone; a row found is cached and
\* returned.  get_messages: the SELECT and fetchall.
FSelect ==
    /\ op.pc = "select"
    /\ \/ /\ op.name = "get_or_create_session"
          /\ LET rows == SelectActive(op.S, op.user)
             IN  \/ /\ rows = {}
                    /\ op' = [op EXCEPT !.pc = "insert"]
                    /\ UNCHANGED <<current_session, ret>>
                 \/ \E r \in rows :
                       /\ current_session' = [id |-> r, user_id |-> op.user,
                                              context |-> LoadContext(op.S[r].context)]
                       /\ ret' = r
                       /\ op' = [op EXCEPT !.pc = "returned", !.result = "ok"]
       \/ /\ op.name = "get_messages"
          /\ ret' \in GetMessagesResults(op.M, op.sid, op.limit)
          /\ op' = [op EXCEPT !.pc = "returned", !.result = "ok"]
          /\ UNCHANGED current_session
    /\ UNCHANGED <<sessions, messages, steps>>
    /\ fFrame

\* The INSERT of get_or_create_session with the cache set before the commit.
FInsertCaching ==
    /\ op.pc = "insert"
    /\ \/ /\ op.name = "get_or_create_session"
          /\ op' = [op EXCEPT !.S = Append(op.S, NewSessionRow(op.user)),
                              !.row = Len(op.S) + 1, !.pc = "insert_commit"]
          /\ current_session' = [id |-> Len(op.S) + 1, user_id |-> op.user, context |-> {}]
       \/ /\ op.name = "add_message"
          /\ op' = [op EXCEPT !.M = Append(op.M, [session_id |-> op.sid, role |-> op.role,
                                                  content |-> op.content, timestamp |-> now]),
                              !.pc = "touch"]
          /\ UNCHANGED current_session
    /\ UNCHANGED <<sessions, messages, ret, steps>>
    /\ fFrame

\* The INSERT of add_message committed on its own.
FInsertAutocommit ==
    /\ op.pc = "insert"
    /\ \/ /\ op.name = "get_or_create_session"
          /\ op' = [op EXCEPT !.S = Append(op.S, NewSessionRow(op.user)),
                              !.row = Len(op.S) + 1, !.pc = "insert_commit"]
          /\ UNCHANGED messages
       \/ /\ op.name = "add_message"
          /\ op' = [op EXCEPT !.M = Append(op.M, [session_id |-> op.sid, role |-> op.role,
                                                  content |-> op.content, timestamp |-> now]),
                              !.pc = "touch"]
          /\ messages' = op'.M
    /\ UNCHANGED <<sessions, current_session, ret, steps>>
    /\ fFrame

\* get_or_create_session: await db.execute("INSERT INTO sessions ...")
\* add_message: await db.execute("INSERT INTO messages ...")
FInsert ==
    /\ op.pc = "insert"
    /\ \/ /\ op.name = "get_or_create_session"
          /\ op' = [op EXCEPT !.S = Append(op.S, NewSessionRow(op.user)),
                              !.row = Len(op.S) + 1, !.pc = "insert_commit"]
       \/ /\ op.name = "add_message"
          /\ op' = [op EXCEPT !.M = Append(op.M, [session_id |-> op.sid, role |-> op.role,
                                                  content |-> op.content, timestamp |-> now]),
                              !.pc = "touch"]
    /\ UNCHANGED <<storeVars, ret, steps>>
    /\ fFrame

\* get_or_create_session: await db.commit(); the new session is cached and returned
FInsertCommit ==
    /\ op.pc = "insert_commit"
    /\ sessions' = op.S
    /\ current_session' = [id |-> op.row, user_id |-> op.user, context |-> {}]
    /\ ret' = op.row
    /\ op' = [op EXCEPT !.pc = "returned", !.result = "ok"]
    /\ UNCHANGED <<messages, steps>>
    /\ fFrame

\* add_message: await db.execute("UPDATE sessions SET updated_at = ...")
\* update_context, end_session: await db.execute("UPDATE sessions SET ...")
FUpdate ==
    /\ op.pc \in {"touch", "update"}
    /\ op' = [op EXCEPT !.pc = "commit",
                        !.S = CASE op.name = "add_message" -> Touch(op.S, op.sid)
                                [] op.name = "update_context" ->
                                      StoreContext(op.S, op.sid, op.ctx)
                                [] op.name = "end_session" -> Deactivate(op.S, op.sid)]
    /\ UNCHANGED <<storeVars, ret, steps>>
    /\ fFrame

\* add_message, update_context, end_session: await db.commit(), then the
\* lines that refresh or clear the cache
FCommit ==
    /\ op.pc = "commit"
    /\ sessions' = op.S
    /\ messages' = op.M
    /\ current_session' =
          CASE op.name = "update_context" -> CacheAfterUpdate(current_session, op.sid, op.ctx)
            [] op.name = "end_session"    -> CacheAfterEnd(current_session, op.sid)
            [] OTHER                      -> current_session
    /\ ret' = 0
    /\ op' = [op EXCEPT !.pc = "returned", !.result = "ok"]
    /\ UNCHANGED steps
    /\ fFrame

\* The await the call is at raises: the exception leaves the operation, the
\* connection is closed, what was not committed is rolled back.
FFail ==
    /\ InProgress
    /\ op' = [op EXCEPT !.pc = "raised", !.result = "error"]
    /\ UNCHANGED <<storeVars, ret, steps>>
    /\ fFrame

\* The process is shut down during the call: the store keeps what was
\* committed, the next process starts with an empty cache.
FShutdown ==
    /\ InProgress
    /\ op' = [op EXCEPT !.pc = "killed", !.result = "none"]
    /\ current_session' = NoSession
    /\ UNCHANGED <<sessions, messages, ret, steps>>
    /\ fFrame

FTick ==
    /\ now < MaxTime
    /\ now' = now + 1
    /\ UNCHANGED <<storeVars, timeout_hours, tz, ret, lastOp, steps, concVars,
                   handlerVars, user_patterns, op, ext>>

NextF ==
    \/ FCall
    \/ FConnect
    \/ FSweep
    \/ FSweepCommit
    \/ FSelect
    \/ FInsert
    \/ FInsertCommit
    \/ FUpdate
    \/ FCommit
    \/ FFail
    \/ FShutdown
    \/ FTick

SpecF == InitF /\ [][NextF]_vars

\* =================================================================== claims
IsGetOrCreate == lastOp.op = "get_or_create_session"

\* The history of a session as appended: its rows by rowid, as get_messages
\* renders them.
SessionRows(M, sid) == SelectSeq(M, LAMBDA m : m.session_id = sid)
Transcript(M, sid) ==
    LET rows == SessionRows(M, sid)
    IN  [i \in 1..Len(rows) |-> [role |-> rows[i].role, content |-> rows[i].content]]
Range(seq) == {seq[i] : i \in DOMAIN seq}
LastN(seq, n) == SubSeq(seq, Len(seq) - n + 1, Len(seq))
DistinctTimestamps(M, sid) ==
    \A i, j \in MessagesOf(M, sid) : i # j => M[i].timestamp # M[j].timestamp
IsSubsequence(a, b) ==
    \E f \in [1..Len(a) -> 1..Len(b)] :
        /\ \A i, j \in 1..Len(a) : i < j => f[i] < f[j]
        /\ \A i \in 1..Len(a) : a[i] = b[f[i]]

\* C1: after any sequence of store operations run one at a time, every user
\* has at most one session with is_active = TRUE.
C1_AtMostOneActive ==
    \A u \in Users : Cardinality(ActiveOf(sessions, u)) <= 1

\* A user with an ended session and an active one, after a lookup that found
\* the active one.
C1_Witness ==
    \E u \in Users :
        /\ Cardinality(ActiveOf(sessions, u)) = 1
        /\ \E i \in DOMAIN sessions : sessions[i].user_id = u /\ ~sessions[i].is_active
        /\ IsGetOrCreate /\ lastOp.user = u /\ lastOp.active # {}

\* C2: when several get_or_create_session calls for one user, who has no
\* active session, run concurrently, one session is created, every call
\* returns its id, and the user never has two active sessions.
C2_OneSessionUnderConcurrency ==
    /\ Cardinality(ActiveOf(sessions, lastOp.user)) <= 1
    /\ (\A p \in Calls : calls[p].pc = "done") =>
            /\ Len(sessions) = lastOp.nsess + 1
            /\ \A p, q \in Calls : calls[p].ret = calls[q].ret

\* C3: whenever the cache is not None, the cached session id is a row of the
\* store that is active and has the cached user_id, and the cached context
\* equals the stored context of that row.
C3_CacheMatchesStore ==
    current_session # NoSession =>
        /\ current_session.id \in DOMAIN sessions
        /\ sessions[current_session.id].is_active
        /\ sessions[current_session.id].user_id = current_session.user_id
        /\ LoadContext(sessions[current_session.id].context) = current_session.context

\* C4: if the user has an active session that has not expired,
\* get_or_create_session returns the most recently updated active session of
\* the user and creates no session.
C4_ReturnsLiveSession ==
    LET live == {i \in lastOp.active : ~Expired(sessions, i)}
    IN  (IsGetOrCreate /\ live # {}) =>
            /\ ret \in lastOp.active
            /\ \A j \in lastOp.active : sessions[j].updated_at <= sessions[ret].updated_at
            /\ Len(sessions) = lastOp.nsess

\* C5: if the user has no active session, get_or_create_session persists
\* exactly one new session of the user, active and with an empty context,
\* returns its id, which no earlier session had, and caches it with context {}.
C5_CreatesOneSession ==
    (IsGetOrCreate /\ lastOp.active = {}) =>
        /\ Len(sessions) = lastOp.nsess + 1
        /\ ret = Len(sessions)
        /\ ret \notin 1..lastOp.nsess
        /\ sessions[ret].user_id = lastOp.user
        /\ sessions[ret].is_active
        /\ sessions[ret].context = JsonDumps({})
        /\ current_session = [id |-> ret, user_id |-> lastOp.user, context |-> {}]

\* A session created for a user whose earlier session had been ended.
C5_Witness ==
    /\ IsGetOrCreate /\ lastOp.active = {}
    /\ ret = lastOp.nsess + 1
    /\ \E i \in 1..lastOp.nsess : sessions[i].user_id = lastOp.user

\* C6: with timeout_hours > 0, a session of the user that is active and whose
\* updated_at is older than now - timeout_hours is deactivated by the next
\* get_or_create_session of the user, which returns a freshly created session.
C6_StaleSessionReplaced ==
    (IsGetOrCreate /\ timeout_hours > 0) =>
        \A s \in lastOp.active :
            Expired(sessions, s) =>
                /\ ~sessions[s].is_active
                /\ ret # s
                /\ ret > lastOp.nsess

\* C7: with timeout_hours = 0 a session is deactivated by end_session on it
\* and by nothing else, and get_or_create_session returns the active session
\* the user has, whatever its age.
C7_NoExpiryWhenDisabled ==
    [][timeout_hours = 0 =>
          /\ \A i \in DOMAIN sessions :
                (sessions[i].is_active /\ ~sessions'[i].is_active) =>
                    (lastOp'.op = "end_session" /\ lastOp'.sid = i)
          /\ (lastOp'.op = "get_or_create_session"
                /\ ActiveOf(sessions, lastOp'.user) # {}) =>
                    /\ ret' \in ActiveOf(sessions, lastOp'.user)
                    /\ sessions'[ret'].is_active]_vars

\* With the timeout disabled, a session untouched for two ticks is returned.
C7_Witness ==
    /\ timeout_hours = 0
    /\ IsGetOrCreate /\ ret \in lastOp.active
    /\ sessions[ret].is_active
    /\ sessions[ret].updated_at + 2 <= now

\* C8: when the messages of a session have pairwise distinct timestamps,
\* get_messages(session, N) returns the last min(N, count) messages of that
\* session, oldest first, in the order they were appended.
C8_LastMessagesInOrder ==
    (lastOp.op = "get_messages" /\ DistinctTimestamps(messages, lastOp.sid)) =>
        LET t == Transcript(messages, lastOp.sid)
        IN  ret = LastN(t, Min(lastOp.limit, Len(t)))

\* Three messages of one session at three times, the last two returned.
C8_Witness ==
    /\ lastOp.op = "get_messages" /\ lastOp.limit = 2
    /\ DistinctTimestamps(messages, lastOp.sid)
    /\ Len(Transcript(messages, lastOp.sid)) = 3
    /\ Len(ret) = 2 /\ ret[1] # ret[2]

\* C9: the history get_messages returns lists the messages in the order of
\* the add_message calls, for every sequence of appends, also when appends
\* receive the same timestamp.
C9_HistoryInAppendOrder ==
    lastOp.op = "get_messages" =>
        IsSubsequence(ret, Transcript(messages, lastOp.sid))

\* C10: update_context(sid, c) makes c the whole stored context of sid; the
\* cached context becomes c when sid is the cached session, and the cache is
\* unchanged otherwise.
C10_UpdateContextReplaces ==
    [][lastOp'.op = "update_context" =>
          LET sid    == lastOp'.sid
              c      == lastOp'.ctx
              cached == current_session # NoSession /\ current_session.id = sid
          IN  /\ sid \in DOMAIN sessions => LoadContext(sessions'[sid].context) = c
              /\ cached => current_session' = [current_session EXCEPT !.context = c]
              /\ ~cached => current_session' = current_session]_vars

\* {a: 1} then {b: 2} on the cached session: the store and the cache hold {b: 2}.
C10_Witness ==
    /\ lastOp.op = "update_context" /\ lastOp.ctx = CtxB
    /\ lastOp.prev = JsonDumps(CtxA)
    /\ current_session.id = lastOp.sid
    /\ current_session.context = CtxB
    /\ sessions[lastOp.sid].context = JsonDumps(CtxB)

\* C11: end_session(sid) sets is_active to FALSE on row sid and changes no
\* other row and no other column; the cache is cleared when it holds sid and
\* is left as it was otherwise; the messages are untouched, and get_messages
\* on the ended session still returns every one of them.
C11_EndSessionFrame ==
    [][lastOp'.op = "end_session" =>
          LET sid    == lastOp'.sid
              cached == current_session # NoSession /\ current_session.id = sid
          IN  /\ DOMAIN sessions' = DOMAIN sessions
              /\ \A i \in DOMAIN sessions :
                    sessions'[i] = IF i = sid
                                   THEN [sessions[i] EXCEPT !.is_active = FALSE]
                                   ELSE sessions[i]
              /\ cached => current_session' = NoSession
              /\ ~cached => current_session' = current_session
              /\ messages' = messages
              /\ \A r \in GetMessagesResults(messages', sid, Len(messages)) :
                    /\ Len(r) = Len(Transcript(messages, sid))
                    /\ \A m \in Range(Transcript(messages, sid)) : m \in Range(r)]_vars

\* The cached session, which has a message, is ended while the session of the
\* other user stays active.
C11_Witness ==
    /\ lastOp.op = "end_session"
    /\ lastOp.sid \in DOMAIN sessions
    /\ ~sessions[lastOp.sid].is_active
    /\ current_session = NoSession
    /\ MessagesOf(messages, lastOp.sid) # {}
    /\ \E i \in DOMAIN sessions : i # lastOp.sid /\ sessions[i].is_active

\* The rows of a triple, spelled out.
RowsOfTriple(P, u, k, v) ==
    {i \in DOMAIN P : P[i].user_id = u /\ P[i].pattern_key = k /\ P[i].pattern_value = v}

\* C13: track_pattern inserts the triple with count 1 when it is absent and
\* adds exactly 1 to its count otherwise, returns the stored count, leaves the
\* counts of every other triple alone; no operation lowers a count.
C13_TrackPatternCounts ==
    [][/\ lastOp'.op = "track_pattern" =>
            LET old == RowsOfTriple(user_patterns, lastOp'.user, lastOp'.key, lastOp'.value)
                new == RowsOfTriple(user_patterns', lastOp'.user, lastOp'.key, lastOp'.value)
            IN  /\ Cardinality(new) = 1
                /\ \A i \in new : user_patterns'[i].occurrence_count = ret'
                /\ old = {} => ret' = 1 /\ Len(user_patterns') = Len(user_patterns) + 1
                /\ old # {} =>
                      /\ old = new
                      /\ \A i \in old : ret' = user_patterns[i].occurrence_count + 1
                      /\ Len(user_patterns') = Len(user_patterns)
                /\ \A i \in DOMAIN user_patterns \ old :
                      user_patterns'[i] = user_patterns[i]
       /\ \A i \in DOMAIN user_patterns :
            /\ i \in DOMAIN user_patterns'
            /\ user_patterns'[i].occurrence_count >= user_patterns[i].occurrence_count]_vars

\* The second track_pattern of a triple returns 2 while another value of the
\* same user and key stays at 1.
C13_Witness ==
    /\ lastOp.op = "track_pattern" /\ ret = 2
    /\ \E i, j \in DOMAIN user_patterns :
          /\ user_patterns[i].pattern_value = lastOp.value
          /\ user_patterns[i].occurrence_count = 2
          /\ user_patterns[j].user_id = user_patterns[i].user_id
          /\ user_patterns[j].pattern_key = user_patterns[i].pattern_key
          /\ user_patterns[j].pattern_value # lastOp.value
          /\ user_patterns[j].occurrence_count = 1

\* C14: get_pattern_suggestions(user, key, threshold) returns one entry for
\* each triple of that user and key whose count is at least the threshold and
\* no other entry, by count descending, each with the stored value, count and
\* is_confirmed_default of its triple.
C14_SuggestionsAtThreshold ==
    lastOp.op = "get_pattern_suggestions" =>
        LET want == {i \in DOMAIN user_patterns :
                        /\ user_patterns[i].user_id = lastOp.user
                        /\ user_patterns[i].pattern_key = lastOp.key
                        /\ user_patterns[i].occurrence_count >= lastOp.limit}
        IN  /\ Len(ret) = Cardinality(want)
            /\ \A i \in want : \E j \in DOMAIN ret :
                  ret[j] = [value |-> user_patterns[i].pattern_value,
                            count |-> user_patterns[i].occurrence_count,
                            is_default |-> user_patterns[i].is_confirmed_default]
            /\ \A j1, j2 \in DOMAIN ret : j1 < j2 => ret[j1].count >= ret[j2].count

\* A query at threshold 2 returns the confirmed triple counted twice and
\* leaves out the triple of the same user and key counted once.
C14_Witness ==
    /\ lastOp.op = "get_pattern_suggestions" /\ lastOp.limit = 2
    /\ Len(ret) = 1 /\ ret[1].count = 2 /\ ret[1].is_default = 1
    /\ \E i \in DOMAIN user_patterns :
          /\ user_patterns[i].user_id = lastOp.user
          /\ user_patterns[i].pattern_key = lastOp.key
          /\ user_patterns[i].occurrence_count = 1

\* C15: is_confirmed_default goes from false to true only in a
\* confirm_pattern_default of that triple; a new row starts unconfirmed, and
\* no operation takes a confirmed row back to unconfirmed.
C15_ConfirmedOnlyByConfirm ==
    [][/\ \A i \in DOMAIN user_patterns :
            /\ (user_patterns[i].is_confirmed_default = 0
                    /\ user_patterns'[i].is_confirmed_default # 0) =>
                  /\ lastOp'.op = "confirm_pattern_default"
                  /\ i \in RowsOfTriple(user_patterns, lastOp'.user, lastOp'.key, lastOp'.value)
            /\ user_patterns[i].is_confirmed_default # 0 =>
                  user_patterns'[i].is_confirmed_default # 0
       /\ \A i \in DOMAIN user_patterns' \ DOMAIN user_patterns :
            user_patterns'[i].is_confirmed_default = 0]_vars

\* A triple tracked up to the learning threshold is still unconfirmed, beside
\* a triple that was confirmed.
C15_Witness ==
    /\ lastOp.op = "track_pattern" /\ ret >= LearningThreshold
    /\ \E i, j \in DOMAIN user_patterns :
          /\ user_patterns[i].occurrence_count = ret
          /\ user_patterns[i].is_confirmed_default = 0
          /\ user_patterns[j].is_confirmed_default = 1

\* The handler of the last update has run to its end with these as its first
\* and last steps.
Finished(kind, last) ==
    /\ h = Idle
    /\ Len(trace) > 1
    /\ trace[1] = kind
    /\ trace[Len(trace)] = last
Pos(e) == CHOOSE i \in DOMAIN trace : trace[i] = e

\* C12: when /new of the authorized user has answered, the session that its
\* get_or_create_session returned was created by this request, is the only
\* active session of the user, and has no message.
C12_NewSessionIsFresh ==
    (Finished("new", "reply") /\ IsGetOrCreate) =>
        /\ ret > lastOp.nsess
        /\ ActiveOf(sessions, AuthorizedUser) = {ret}
        /\ MessagesOf(messages, ret) = {}

\* C16: while handle_photo presents the extracted actions, each step sends a
\* reply and does nothing else: the store, the cache and the patterns are
\* unchanged, and the step taken for an action is the reply of its
\* format_for_confirmation text, whatever the action's requires_confirmation
\* and confidence.
C16_ActionsOnlyPresented ==
    [][(h.pc \in {"header", "confirm"} /\ trace' # trace) =>
          /\ UNCHANGED <<sessions, messages, current_session, user_patterns>>
          /\ h.pc = "header" => trace' = Append(trace, "header")
          /\ h.pc = "confirm" =>
                /\ reply' = format_for_confirmation(Head(h.actions))
                /\ trace' = Append(trace, "confirm")]_vars

\* The action of the fenced block, which has requires_confirmation false and
\* confidence 1.0, has been presented, and the todo action is still to come.
C16_Witness ==
    /\ h.pc = "confirm"
    /\ trace[Len(trace)] = "confirm"
    /\ reply = <<"Action detected:", "pay_invoice">>
    /\ Len(h.actions) = 1
    /\ \E a \in Range(extract_from_analysis(h.response)) :
          ~a.requires_confirmation /\ a.confidence = 100

\* C18: after a call fails in handle_text_message, handle_calendar or
\* handle_photo, the handler makes no further store or AI call and sends one
\* reply, the fixed apology of that handler, which is not the exception text.
C18_OneApologyNoRetry ==
    [][/\ (h.pc = "except" /\ trace' # trace) =>
            /\ reply' = Apology(h.kind)
            /\ reply' # h.exc
            /\ trace' = Append(trace, "apology")
            /\ h' = Idle
            /\ UNCHANGED <<sessions, messages, current_session, user_patterns>>
       /\ \A i \in DOMAIN trace' :
            (trace'[i] = "fail" /\ trace'[1] \in AiKinds) =>
                /\ SubSeq(trace', i + 1, Len(trace')) \in {<<>>, <<"apology">>}
                /\ h' = Idle => i < Len(trace')]_vars

\* handle_photo has apologised after its second add_message failed.
C18_Witness ==
    /\ Finished("photo", "apology")
    /\ trace[Len(trace) - 1] = "fail"
    /\ trace[Len(trace) - 2] = "add_user"
    /\ reply = Apology("photo")

\* C19: a text or photo interaction that has answered went through
\* get_or_create_session, the append of the user's message, the AI call, the
\* append of the response and the action extractor, in this order, and
\* presented the extracted actions after that.
C19_PipelineOrder ==
    (h = Idle /\ Len(trace) > 0 /\ trace[1] \in {"text", "photo"}
        /\ "reply" \in Range(trace)) =>
        /\ {"goc", "add_user", "ai", "add_asst", "extract"} \subseteq Range(trace)
        /\ Pos("goc") < Pos("add_user")
        /\ Pos("add_user") < Pos("ai")
        /\ Pos("ai") < Pos("add_asst")
        /\ Pos("add_asst") < Pos("extract")
        /\ "header" \in Range(trace) => Pos("extract") < Pos("header")

\* C17: when a store operation has raised, its caller has the error, and the
\* cache holds what it held when the call was made.
C17_FailurePropagatesCacheKept ==
    op.pc = "raised" =>
        /\ op.result = "error"
        /\ current_session = op.cache

\* update_context on the cached session raised at its commit: the new
\* context is neither stored nor cached.
C17_Witness ==
    /\ op.pc = "raised" /\ op.name = "update_context"
    /\ current_session # NoSession /\ current_session.id = op.sid
    /\ op.sid \in DOMAIN op.S
    /\ LoadContext(op.S[op.sid].context) = op.ctx
    /\ current_session.context # op.ctx
    /\ sessions = op.S0

\* C20: at every step of an add_message call, and after it has returned,
\* raised or been shut down, the committed store is either the store as it
\* was when the call was made, or that store with the new message row and
\* with updated_at of the message's session refreshed, no earlier than the
\* timestamp of the row.
C20_AddMessageAtomic ==
    op.name = "add_message" =>
        \/ /\ messages = op.M0
           /\ sessions = op.S0
        \/ /\ Len(messages) = Len(op.M0) + 1
           /\ SubSeq(messages, 1, Len(op.M0)) = op.M0
           /\ LET m == messages[Len(messages)]
              IN  /\ m.session_id = op.sid /\ m.role = op.role /\ m.content = op.content
                  /\ DOMAIN sessions = DOMAIN op.S0
                  /\ \A i \in DOMAIN sessions :
                        IF i = op.sid
                        THEN /\ sessions[i] = [op.S0[i] EXCEPT !.updated_at = sessions[i].updated_at]
                             /\ sessions[i].updated_at >= m.timestamp
                             /\ op.pc = "returned"
                        ELSE sessions[i] = op.S0[i]

\* add_message on a session that was last updated a tick ago raised after
\* its INSERT: neither the row nor the new updated_at is in the store.
C20_Witness ==
    /\ op.name = "add_message" /\ op.pc = "raised"
    /\ op.sid \in DOMAIN sessions
    /\ Len(op.M) = Len(messages) + 1
    /\ sessions[op.sid].updated_at < now
    /\ messages = op.M0 /\ sessions = op.S0

\* ------------------------------------------- claims on the action extractor
\* The last call to the extractor has returned its list.
Returned == ext.pc \in {"returned", "shown"}

\* The actions of the last call that the implicit scan added, and those of a
\* given type among them.
ImplicitOf(e) == SubSeq(e.result, e.explicit + 1, Len(e.result))
OfType(actions, type) == SelectSeq(actions, LAMBDA a : a.action_type = type)

\* The matches of the date kinds and of the time kinds in a text.
DateKinds == {"weekday", "relative", "month_day"}
TimeKinds == {"clock", "hour"}
MatchesOf(kinds, text) == UNION {Range(FindAll(p, text)) : p \in kinds}

\* C21: in every calendar_event action of the implicit scan, every match of
\* a day-of-week name, a relative-day term or a month-day date is in
\* extracted_dates and not in extracted_times, and every match of the two
\* time formats is in extracted_times and not in extracted_dates.
C21_DatesAndTimesApart ==
    Returned =>
        \A a \in Range(OfType(ImplicitOf(ext), "calendar_event")) :
            LET dates == Range(ParamList(a, "extracted_dates"))
                times == Range(ParamList(a, "extracted_times"))
            IN  /\ MatchesOf(DateKinds, ext.text) \subseteq dates
                /\ MatchesOf(TimeKinds, ext.text) \subseteq times
                /\ MatchesOf(DateKinds, ext.text) \cap times = {}
                /\ MatchesOf(TimeKinds, ext.text) \cap dates = {}

\* C22: the implicit scan gives at most one calendar_event action, and one
\* exactly when the text has a calendar keyword and a date or a time; its
\* confidence is 0.7 when the text has a date of any kind and a time and 0.5
\* otherwise; the text meeting tomorrow 3pm gives exactly one action, a
\* calendar_event with tomorrow among the dates, 3pm among the times and
\* confidence 0.7.
C22_OneCalendarEvent ==
    Returned =>
        LET events  == OfType(ImplicitOf(ext), "calendar_event")
            hasDate == MatchesOf(DateKinds, ext.text) # {}
            hasTime == MatchesOf(TimeKinds, ext.text) # {}
        IN  /\ Len(events) <= 1
            /\ Len(events) = 1 <=>
                  (HasAny(ext.text, CalendarKeywords) /\ (hasDate \/ hasTime))
            /\ \A a \in Range(events) :
                  a.confidence = IF hasDate /\ hasTime THEN 70 ELSE 50
            /\ ext.text = <<"Meeting", "tomorrow", "3pm">> =>
                  /\ Len(ext.result) = 1
                  /\ ext.result[1].action_type = "calendar_event"
                  /\ "tomorrow" \in Range(ParamList(ext.result[1], "extracted_dates"))
                  /\ "3pm" \in Range(ParamList(ext.result[1], "extracted_times"))
                  /\ ext.result[1].confidence = 70

\* The addresses of a text, in the order of the text.
AddressesOf(text) ==
    SelectSeq(text, LAMBDA t : t \in {"john@example.com", "ann@example.org"})

\* C23: the implicit scan gives at most one email action, and one exactly
\* when the text has an email keyword and an address or the word email; its
\* extracted_emails are the addresses of the text in text order and its
\* confidence is 0.6 with an address and 0.4 without; the text email
\* john@example.com gives one email action with that address and 0.6.
C23_OneEmailAction ==
    Returned =>
        LET mails     == OfType(ImplicitOf(ext), "email")
            addresses == AddressesOf(ext.text)
        IN  /\ Len(mails) <= 1
            /\ Len(mails) = 1 <=>
                  /\ HasAny(ext.text, EmailKeywords)
                  /\ (addresses # <<>> \/ HasAny(ext.text, {"email"}))
            /\ \A a \in Range(mails) :
                  /\ ParamList(a, "extracted_emails") = addresses
                  /\ a.confidence = IF addresses # <<>> THEN 60 ELSE 40
            /\ ext.text = <<"email", "john@example.com", "hello">> =>
                  /\ Len(ext.result) = 1
                  /\ ext.result[1].action_type = "email"
                  /\ ParamList(ext.result[1], "extracted_emails") = <<"john@example.com">>
                  /\ ext.result[1].confidence = 60

\* A call on a text with the keyword reply and two addresses has returned
\* one email action that lists both in the order of the text.
C23_Witness ==
    /\ Returned
    /\ ext.text = <<"reply", "john@example.com", "ann@example.org">>
    /\ Len(ext.result) = 1
    /\ ext.result[1].action_type = "email"
    /\ ParamList(ext.result[1], "extracted_emails") = <<"john@example.com", "ann@example.org">>
    /\ ext.result[1].confidence = 60

\* The first n characters of a text: the longest run of whole tokens from
\* the start that fits in n characters, and a cut piece when the next token
\* starts before the n-th character.
FirstChars(text, n) ==
    LET k == CHOOSE k \in 0..Len(text) :
                /\ TextWidth(SubSeq(text, 1, k)) <= n
                /\ k < Len(text) => TextWidth(SubSeq(text, 1, k + 1)) > n
    IN  SubSeq(text, 1, k)
        \o (IF k < Len(text) /\ TextWidth(SubSeq(text, 1, k)) < n
            THEN <<"(cut)">> ELSE <<>>)

\* C24: for every text with a todo keyword, in any case of letters, the
\* implicit scan gives exactly one todo action, with confidence 0.5,
\* requires_confirmation true and no parameter but original_text, which is
\* the first 500 characters of the text, whatever the other detectors and
\* the explicit path produce.
C24_OneTodoAction ==
    (Returned /\ HasAny(ext.text, TodoKeywords)) =>
        LET todos == OfType(ImplicitOf(ext), "todo")
        IN  /\ Len(todos) = 1
            /\ todos[1].confidence = 50
            /\ todos[1].requires_confirmation
            /\ todos[1].parameters =
                  Dict({<<"original_text", FirstChars(ext.text, ExcerptChars)>>})

\* A call on a text longer than 500 characters, whose word TODO comes after
\* the 500th character, has returned an email action and a todo action.
C24_Witness ==
    /\ Returned
    /\ ext.text = <<Pad, "email", "TODO">>
    /\ TextWidth(ext.text) > ExcerptChars
    /\ Len(ext.result) = 2
    /\ ext.result[2].action_type = "todo"
    /\ ParamList(ext.result[2], "original_text") = <<Pad, "email">>

\* The text has a keyword of one of the three detectors; it has a marker.
HasKeyword(text) == HasAny(text, CalendarKeywords \cup EmailKeywords \cup TodoKeywords)
Marked(text)     == \E i \in DOMAIN text : text[i] \in {Marker, MarkerAlt}

\* C25, as claimed: for every text with none of the calendar, email or todo
\* keywords, extract_from_analysis returns an empty list.
C25_NoKeywordEmpty ==
    (Returned /\ ~HasKeyword(ext.text)) => ext.result = <<>>

\* C25, amended: for every text with none of the calendar, email or todo
\* keywords the implicit scan adds nothing, so extract_from_analysis returns
\* the actions of the explicit path alone, and an empty list when the text
\* has no explicit marker.
C25_NoKeywordOnlyExplicit ==
    (Returned /\ ~HasKeyword(ext.text)) =>
        /\ ImplicitOf(ext) = <<>>
        /\ ~Marked(ext.text) => ext.result = <<>>

\* A call on a text that has a fenced block with an action, no marker and no
\* keyword has returned the empty list.
C25_Witness ==
    /\ Returned
    /\ ext.text = <<BlockAuto>>
    /\ ext.result = <<>>

\* C26: for the text made of the ACTIONABLE ITEMS: marker and the fenced
\* block with action todo and parameters text: buy milk, extract_from_analysis
\* returns a list of one action, of type todo and confidence 0.8.
C26_MarkedTodoBlock ==
    (Returned /\ ext.text = <<Marker, BlockTodo>>) =>
        /\ Len(ext.result) = 1
        /\ ext.result[1].action_type = "todo"
        /\ ext.result[1].confidence = 80

\* The blocks that are well-formed json with an action or a type field, and
\* the action each of them stands for, with the defaults for what it leaves
\* out.
ActionBlocks == {BlockAuto, BlockTodo, BlockOver, BlockNullParams, BlockDeep}
ItemOfBlock(tok, context) ==
    [action_type |->
        CASE tok = BlockAuto -> "pay_invoice"
          [] tok = BlockTodo -> "todo"
          [] tok = BlockOver -> "transfer"
          [] tok = BlockNullParams -> "email"
          [] tok = BlockDeep -> "archive",
     parameters |->
        CASE tok = BlockTodo -> Dict({<<"text", <<"buy milk">>>>})
          [] tok = BlockNullParams -> JsonNull
          [] tok = BlockDeep -> Dict({<<"nested", <<"[[[[ ... ]]]]">>>>})
          [] OTHER -> Dict({}),
     requires_confirmation |-> tok # BlockAuto,
     confidence |-> CASE tok = BlockAuto -> 100 [] tok = BlockOver -> 150 [] OTHER -> 80,
     context |-> context]

\* C27: extract_from_analysis raises for no text; with a marker in the text
\* its list begins with one action for each well-formed block that has an
\* action or a type, in the order of the blocks, with the defaults and the
\* conversation metadata as context, whatever malformed blocks stand among
\* them, and goes on with the implicit actions; without a marker the blocks
\* give nothing.
C27_ExplicitBlocks ==
    /\ ext.pc # "raised"
    /\ Returned =>
          LET blocks  == SelectSeq(ext.text, LAMBDA t : t \in ActionBlocks)
              context == ExtractConversationContext(ext.text)
          IN  /\ SubSeq(ext.result, 1, ext.explicit) =
                    IF Marked(ext.text)
                    THEN [i \in DOMAIN blocks |-> ItemOfBlock(blocks[i], context)]
                    ELSE <<>>
              /\ ImplicitOf(ext) = ParseImplicitActions(ext.text, context)

C29_FormatNeverRaises ==
    ext.pc = "shown" =>
        \A i \in DOMAIN ext.shown :
            /\ ext.shown[i].error = ""
            /\ ext.result[i].action_type \notin {"calendar_event", "email", "todo"} =>
                  ext.shown[i].text = <<"Action detected:", ext.result[i].action_type>>

\* C30: every action returned by extract_from_analysis has a confidence
\* from 0.0 to 1.0.
C30_ConfidenceInRange ==
    Returned =>
        \A i \in DOMAIN ext.result :
            ext.result[i].confidence >= 0 /\ ext.result[i].confidence <= 100

\* ------------------------------------------------ claims on expiry and time
\* C31: with timeout_hours > 0, get_or_create_session(u) deactivates exactly
\* the sessions of u whose updated_at is older than now - timeout_hours; a
\* session of u updated within the timeout stays active and is the one
\* returned, and no session of another user changes.
C31_SweepExactlyStale ==
    [][(lastOp'.op = "get_or_create_session" /\ timeout_hours > 0) =>
          LET u == lastOp'.user
          IN  \A i \in DOMAIN sessions :
                /\ sessions[i].user_id # u => sessions'[i] = sessions[i]
                /\ (sessions[i].user_id = u /\ sessions[i].is_active) =>
                      /\ sessions'[i].is_active = ~Expired(sessions, i)
                      /\ ~Expired(sessions, i) => ret' = i]_vars

\* C32: expiry is evaluated only inside get_or_create_session: no step of
\* add_message, get_messages or update_context deactivates a session, so a
\* session older than the timeout stays active, and stays the cached session,
\* until a get_or_create_session of its user (or an end_session on it).
C32_ExpiryOnlyInLookup ==
    [][/\ \A i \in DOMAIN sessions :
            (sessions[i].is_active /\ ~sessions'[i].is_active) =>
                \/ /\ op.name = "get_or_create_session"
                   /\ op.user = sessions[i].user_id
                   /\ timeout_hours > 0
                \/ op.name = "end_session" /\ op.sid = i
       /\ (op.name \in {"add_message", "get_messages", "update_context"}
             /\ op'.pc # "killed") =>
                current_session'.id = current_session.id]_vars

\* add_message on the cached session, active and older than the timeout: the
\* call has returned and the session is still active and still cached.
C32_Witness ==
    /\ op.name = "add_message" /\ op.pc = "returned"
    /\ timeout_hours > 0
    /\ op.sid \in DOMAIN op.S0
    /\ op.S0[op.sid].is_active
    /\ op.S0[op.sid].updated_at < now - timeout_hours
    /\ sessions[op.sid].is_active
    /\ current_session.id = op.sid

\* C33: the updated_at of a session never decreases; the UPDATE of every
\* add_message and update_context on the session sets it to the current time,
\* which the commit stores, and no step of get_or_create_session,
\* get_messages or end_session changes it.
C33_UpdatedAtMonotone ==
    [][/\ \A i \in DOMAIN sessions :
            /\ sessions'[i].updated_at >= sessions[i].updated_at
            /\ op.name \in {"get_or_create_session", "get_messages", "end_session"} =>
                    sessions'[i].updated_at = sessions[i].updated_at
       /\ (op.name \in {"add_message", "update_context"} /\ op.sid \in DOMAIN sessions) =>
            /\ (op.pc \in {"touch", "update"} /\ op'.pc = "commit") =>
                    op'.S[op.sid].updated_at = now
            /\ (op.pc = "commit" /\ op'.pc = "returned") =>
                    sessions'[op.sid].updated_at = op.S[op.sid].updated_at]_vars

\* update_context has returned and the session carries a later updated_at
\* than it had when the call was made.
C33_Witness ==
    /\ op.name = "update_context" /\ op.pc = "returned"
    /\ op.sid \in DOMAIN op.S0
    /\ sessions[op.sid].updated_at > op.S0[op.sid].updated_at
    /\ sessions[op.sid].updated_at = now

\* C34: get_or_create_session is one transaction: while the call is in
\* progress, and after it has failed or the process was shut down during it,
\* the committed store is the one the call found, so the sweep is never
\* persisted without the lookup or the creation that follows it.
C34_LookupOneTransaction ==
    (op.name = "get_or_create_session" /\ op.pc # "returned") =>
        sessions = op.S0

\* C36: deactivation is permanent: a session whose is_active is FALSE stays
\* so at every step of every operation, add_message and update_context on it
\* included, and no get_or_create_session returns its id.
C36_DeactivationPermanent ==
    [][\A i \in DOMAIN sessions :
          ~sessions[i].is_active =>
              /\ ~sessions'[i].is_active
              /\ (op.name = "get_or_create_session" /\ op.pc # "returned"
                    /\ op'.pc = "returned") => ret' # i]_vars

\* update_context on an inactive session has returned: the context is
\* stored, the session is still inactive, and a later lookup of its user
\* would create a session.
C36_Witness ==
    /\ op.name = "update_context" /\ op.pc = "returned" /\ op.result = "ok"
    /\ op.sid \in DOMAIN op.S0
    /\ ~op.S0[op.sid].is_active
    /\ ~sessions[op.sid].is_active
    /\ LoadContext(sessions[op.sid].context) = op.ctx
    /\ ActiveOf(sessions, sessions[op.sid].user_id) = {}

\* --------------------------------------------------- claims on the handlers
\* C35: an update of a user other than the authorized one gets, in every
\* handler, the refusal and nothing else: the only step of the handler is
\* the refusal, after which it has ended, having called neither the store
\* nor the AI backend and with the cache as it was;
\* so every stored session belongs to the authorized user.
C35_UnauthorizedOnlyRefused ==
    [][/\ (h # Idle /\ h.user # AuthorizedUser) =>
            /\ UNCHANGED <<sessions, messages, current_session>>
            /\ \/ UNCHANGED <<h, reply, trace>>
               \/ /\ reply' = "unauthorized"
                  /\ trace' = <<h.kind, "refuse">>
                  /\ h' = Idle
       /\ \A i \in DOMAIN sessions' : sessions'[i].user_id = AuthorizedUser]_vars

\* A photo of another user refused while the authorized user has a session
\* in the store and in the cache.
C35_Witness ==
    /\ h = Idle /\ trace = <<"photo", "refuse">>
    /\ reply = "unauthorized"
    /\ sessions # <<>>
    /\ current_session # NoSession

C38_ConcurrentTrackingCounts ==
    /\ \A p \in TrackCalls : calls[p].pc # "raised"
    /\ (\A p \in TrackCalls : calls[p].pc = "done") =>
          /\ \A r \in TrackRows : user_patterns[r].occurrence_count = NumTrackCalls
          /\ {calls[p].ret : p \in TrackCalls} = TrackCalls

\* ------------------------------------------- claims on the message history
RolesAlternate(t) ==
    \A i \in 1..Len(t) : t[i].role = IF i % 2 = 1 THEN "user" ELSE "assistant"

\* C39: between two interactions the history of every session alternates
\* user, assistant, user, assistant, ...: every user message is followed by
\* the assistant response of its interaction, also when the AI call or a
\* later store operation of the interaction failed.
C39_RolesAlternate ==
    h = Idle =>
        \A sid \in DOMAIN sessions :
            LET t == Transcript(messages, sid)
            IN  RolesAlternate(t) /\ Len(t) % 2 = 0

====
